---- MODULE Spec2Model ----
(***************************************************************************)
(* The address-validation resilience layer of shawnee-bowl-marketing:      *)
(* CircuitBreaker, AddressOrchestrator (waterfall and hedged dispatch,     *)
(* per-provider timeout) and AddressCache (canonical keys, TTL'd entries,  *)
(* in-flight deduplication), from                                          *)
(* src/server/services/addressOrchestrator.ts, with the configuration of   *)
(* src/server/services/addressConfig.ts.                                   *)
(*                                                                         *)
(* JavaScript runs one task at a time: an action of this model is one task *)
(* of the event loop together with the promise continuations (microtasks)  *)
(* it triggers, up to the next point where the code waits for a timer or   *)
(* for a provider's network answer.                                        *)
(*                                                                         *)
(* Time is counted in whole units.  The code reads a stored time only in a *)
(* difference with the current time (Date.now() - lastFailureTime,         *)
(* now - entry.timestamp, Date.now() - startTime): the model keeps that    *)
(* difference, the elapsed time, in place of the stored time, and counts   *)
(* it up to the largest value the code tells apart.  The durations of the  *)
(* configuration and the breaker's threshold are parameters of the classes *)
(* that use them; they are instantiated here with small values (see the    *)
(* bounds below).                                                          *)
(***************************************************************************)
EXTENDS Integers, Sequences, FiniteSets, TLC

(***************************************************************************)
(* Bounds of the model: the breaker's constructor parameters and the       *)
(* durations of the configuration, in units of time.  addressConfig.ts     *)
(* sets them to 5 failures, 30 s, 2 s, 250 ms, 7 days and 1 hour.          *)
(***************************************************************************)
failureThreshold == 2
resetTimeoutMs == 2
perProviderTimeoutMs == 1
hedgeDelayMs == 1
cacheTtlMs == 2
negativeCacheTtlMs == 1

\* the number of rewritings applied to an input of canonicalizeAddress
MaxEdits == 3

\* the number of names in ADDRESS_VALIDATION_ORDER
MaxOrderLen == 3

\* the failure counter is not counted beyond this value
MaxFailures == failureThreshold + 1

(***************************************************************************)
(* Strings are sequences of characters.                                    *)
(***************************************************************************)
Whitespace == {" ", "\t"}
Digits == {"0", "1", "2", "3", "4", "5", "6", "7", "8", "9"}

\* String.prototype.toUpperCase, one character
UpperChar(c) ==
  CASE c = "a" -> "A"
    [] c = "b" -> "B"
    [] c = "m" -> "M"
    [] c = "s" -> "S"
    [] OTHER -> c

toUpperCase_Same(s) == s

toUpperCase(s) == [i \in 1..Len(s) |-> UpperChar(s[i])]

RECURSIVE TrimStart(_)
TrimStart(s) ==
  IF s # <<>> /\ Head(s) \in Whitespace THEN TrimStart(Tail(s)) ELSE s

RECURSIVE TrimEnd(_)
TrimEnd(s) ==
  IF s # <<>> /\ s[Len(s)] \in Whitespace
  THEN TrimEnd(SubSeq(s, 1, Len(s) - 1))
  ELSE s

\* String.prototype.trim
trim(s) == TrimEnd(TrimStart(s))

\* s.replace(/\s+/g, ' '): every run of whitespace becomes one space
RECURSIVE CollapseWhitespace(_)
CollapseWhitespace(s) ==
  IF s = <<>> THEN <<>>
  ELSE IF Head(s) \in Whitespace
       THEN <<" ">> \o CollapseWhitespace(TrimStart(s))
       ELSE <<Head(s)>> \o CollapseWhitespace(Tail(s))

\* s.replace(/[^\d-]/g, ''): only digits and hyphens are kept
RECURSIVE KeepDigitsAndHyphens(_)
KeepDigitsAndHyphens(s) ==
  IF s = <<>> THEN <<>>
  ELSE IF Head(s) \in Digits \cup {"-"}
       THEN <<Head(s)>> \o KeepDigitsAndHyphens(Tail(s))
       ELSE KeepDigitsAndHyphens(Tail(s))

\* parts.filter(Boolean).join('|'): an absent field (undefined) and an empty
\* string are both dropped; an absent field is written <<>> here
RECURSIVE JoinParts(_)
JoinParts(parts) ==
  IF parts = <<>> THEN <<>>
  ELSE LET rest == JoinParts(Tail(parts)) IN
       IF Head(parts) = <<>> THEN rest
       ELSE IF rest = <<>> THEN Head(parts)
       ELSE Head(parts) \o <<"|">> \o rest

canonicalizeAddress(input) ==
  JoinParts(<<
    CollapseWhitespace(toUpperCase(trim(input.streetAddress))),
    CollapseWhitespace(toUpperCase(trim(input.secondaryAddress))),
    CollapseWhitespace(toUpperCase(trim(input.city))),
    toUpperCase(trim(input.state)),
    KeepDigitsAndHyphens(trim(input.ZIPCode)) >>)

\* the addresses the callers ask about: the first two differ in letter case
\* and whitespace only, the third is another address
Addresses ==
  << [streetAddress |-> <<"1", " ", "M", "a">>, secondaryAddress |-> <<>>,
      city |-> <<>>, state |-> <<"a", "s">>, ZIPCode |-> <<>>],
     [streetAddress |-> <<" ", "1", " ", "\t", "m", "A">>, secondaryAddress |-> <<>>,
      city |-> <<>>, state |-> <<"A", "S">>, ZIPCode |-> <<>>],
     [streetAddress |-> <<"2", " ", "b">>, secondaryAddress |-> <<>>,
      city |-> <<>>, state |-> <<"A", "S">>, ZIPCode |-> <<>>] >>

\* an input whose fields are all empty: its key is the empty string
EmptyAddress ==
  [streetAddress |-> <<>>, secondaryAddress |-> <<>>, city |-> <<" ">>,
   state |-> <<>>, ZIPCode |-> <<>>]

\* the inputs of the calls made on the cache by itself
CacheInputs == {Addresses[1], EmptyAddress}

Keys ==
  {canonicalizeAddress(Addresses[i]) : i \in 1..Len(Addresses)}
    \cup {canonicalizeAddress(input) : input \in CacheInputs}

(***************************************************************************)
(* Providers and configuration.                                            *)
(***************************************************************************)
AddressProvider == {"smarty", "google", "usps"}

\* defaultAddressConfig.order
configOrder == <<"smarty", "google", "usps">>

Modes == {"waterfall", "hedged"}

\* the callers of validateAddress
Slots == {1, 2}

VARIABLES
  env,               \* the callers: how many there are and the options they use
  enabled,           \* the providers whose isEnabled() is true
  maxSize,           \* AddressCache.maxSize
  circuitBreakers,   \* provider -> [failures, lastFailureTime, state]
  cache,             \* AddressCache.cache: the entries in insertion order
  inFlightRequests,  \* key -> the run (named by its first caller) or 0
  reqs,              \* each caller's position: idle, or waiting for a run
  runs,              \* each executor run: mode, order, position, tried, errors
  calls,             \* each run's guarded call per provider
  last,              \* what the last task did
  canon,             \* an input of canonicalizeAddress and the key of its first form
  adapter,           \* a call of an adapter's validate made by itself
  ordering           \* a configured order and a call of getProviderOrder on it

orchestratorVars ==
  <<env, enabled, maxSize, circuitBreakers, cache, inFlightRequests, reqs, runs,
    calls, last>>

vars == <<orchestratorVars, canon, adapter, ordering>>

(***************************************************************************)
(* NormalizedResult.  An optional field that is not set is a field the     *)
(* record does not have.                                                   *)
(***************************************************************************)
Has(r, f) == f \in DOMAIN r

\* JavaScript's truthiness of r.f for an optional boolean field
Truthy(r, f) == Has(r, f) /\ r[f]

\* { ...r, f: v }
With(r, f, v) == [g \in DOMAIN r \cup {f} |-> IF g = f THEN v ELSE r[g]]

\* what an adapter's validate resolves with: a validation, a confident
\* rejection, or a transient unavailability (shared/schema.ts; the adapters'
\* validate methods)
ResultKinds == {"valid", "invalid", "unavailable"}

AdapterResult(p, kind, key, latency) ==
  CASE kind = "valid" ->
         [isValid |-> TRUE, standardizedAddress |-> key, provider |-> p,
          latencyMs |-> latency]
    [] kind = "invalid" ->
         [isValid |-> FALSE, errors |-> << <<"Address not found or invalid.">> >>,
          provider |-> p, latencyMs |-> latency]
    [] OTHER ->
         [isValid |-> FALSE, serviceUnavailable |-> TRUE,
          errors |-> << <<"service rate limit reached">> >>,
          provider |-> p, latencyMs |-> latency]

(***************************************************************************)
(* CircuitBreaker                                                          *)
(***************************************************************************)
\* lastFailureTime = 0: the time elapsed since then is beyond every timeout
NewCircuitBreaker ==
  [failures |-> 0, sinceLastFailure |-> resetTimeoutMs, state |-> "closed"]

\* execute, lines 20-26: does the call go on to the wrapped operation?
BreakerAdmits_Always(b) == TRUE

BreakerAdmits(b) ==
  b.state # "open" \/ b.sinceLastFailure >= resetTimeoutMs

\* execute, lines 20-23: the breaker once the call has been admitted
BreakerEnter(b) ==
  IF b.state = "open" THEN [b EXCEPT !.state = "half-open"] ELSE b

onSuccess_KeepCount(b) == [b EXCEPT !.state = "closed"]

onSuccess(b) == [b EXCEPT !.failures = 0, !.state = "closed"]

\* (mutant) the failure is counted and its time is not taken
onFailure_KeepTime(b) ==
  [failures |-> b.failures + 1,
   sinceLastFailure |-> b.sinceLastFailure,
   state |-> IF b.failures + 1 >= failureThreshold THEN "open" ELSE b.state]

\* (mutant) the breaker opens one failure late
onFailure_OpenLate(b) ==
  [failures |-> b.failures + 1,
   sinceLastFailure |-> 0,
   state |-> IF b.failures + 1 > failureThreshold THEN "open" ELSE b.state]

onFailure(b) ==
  [failures |-> b.failures + 1,
   sinceLastFailure |-> 0,
   state |-> IF b.failures + 1 >= failureThreshold THEN "open" ELSE b.state]

\* (mutant) one breaker serves every provider
AfterFailure_Shared(brk, p) == [q \in DOMAIN brk |-> onFailure(brk[q])]

\* the breakers after the guarded call of provider p has failed: each
\* provider has a breaker of its own (initializeCircuitBreakers), and the
\* call runs in that of p (circuitBreakers.get(providerType))
AfterFailure(brk, p) == [brk EXCEPT ![p] = onFailure(@)]

\* (mutant) a call that resolves is counted as a failure
AfterSuccess_AsFailure(brk, p) == [brk EXCEPT ![p] = onFailure(@)]

\* the breakers after the guarded call of provider p has succeeded
AfterSuccess(brk, p) == [brk EXCEPT ![p] = onSuccess(@)]

(***************************************************************************)
(* AddressCache: a Map keeps its keys in insertion order; setting a key    *)
(* that is present keeps its place.                                        *)
(***************************************************************************)
NoEntry == [key |-> <<"none">>]

CacheIndex(c, key) ==
  IF \E i \in 1..Len(c) : c[i].key = key
  THEN CHOOSE i \in 1..Len(c) : c[i].key = key
  ELSE 0

\* Map.get
CacheEntry(c, key) == IF CacheIndex(c, key) = 0 THEN NoEntry ELSE c[CacheIndex(c, key)]

\* Map.delete
CacheDelete(c, key) == SelectSeq(c, LAMBDA e : e.key # key)

\* Map.set
MapSet(c, e) ==
  IF CacheIndex(c, e.key) = 0 THEN Append(c, e)
  ELSE [c EXCEPT ![CacheIndex(c, e.key)] = e]

\* get, lines 332-336
Expired(e) == e.age > e.ttl

\* (mutant) the stored result is handed out as it is
CachedCopy_Stored(e) == e.result

\* get, lines 338-343: the copy handed out on a hit
CachedCopy(e) == [e.result EXCEPT !.latencyMs = 0]

\* get: the cache after the call (an expired entry is deleted)
CacheAfterGet(c, key) ==
  IF CacheIndex(c, key) # 0 /\ Expired(CacheEntry(c, key))
  THEN CacheDelete(c, key)
  ELSE c

\* (mutant) nothing is ever found
CacheHit_Never(c, key) == FALSE

\* get: is the call a hit?
CacheHit(c, key) ==
  CacheIndex(c, key) # 0 /\ ~Expired(CacheEntry(c, key))

\* set, lines 352-358: when the cache is full the first key is deleted,
\* unless that key is the empty string (if (oldestKey))
EvictOldest(c) ==
  IF Len(c) >= maxSize /\ c # <<>> /\ c[1].key # <<>>
  THEN Tail(c)
  ELSE c

\* set
CacheSet(c, key, result, ttl) ==
  MapSet(EvictOldest(c), [key |-> key, result |-> result, age |-> 0, ttl |-> ttl])

\* (mutant) every result is stored with the positive TTL
TtlFor_Positive(result, positiveTtl, negativeTtl) == positiveTtl

\* getOrExecute, line 396
TtlFor(result, positiveTtl, negativeTtl) ==
  IF result.isValid THEN positiveTtl ELSE negativeTtl

\* (mutant) the in-flight table is never consulted
InFlightGet_Ignored(table, key) == 0

\* getOrExecute, lines 385-388: the run a new call joins, or 0
InFlightGet(table, key) == table[key]

\* (mutant) clear: every entry is removed
CacheCleanup_All(c) == <<>>

\* cleanup
CacheCleanup(c) == SelectSeq(c, LAMBDA e : ~Expired(e))

(***************************************************************************)
(* AddressOrchestrator                                                     *)
(***************************************************************************)
\* getProviderOrder on the configured order; "none" is no preferred provider
ProviderOrder(order, preferredProvider) ==
  IF preferredProvider # "none"
  THEN <<preferredProvider>> \o SelectSeq(order, LAMBDA p : p # preferredProvider)
  ELSE order

\* getProviderOrder with the order of defaultAddressConfig
getProviderOrder(preferredProvider) == ProviderOrder(configOrder, preferredProvider)

\* no order read from the environment, no call of getProviderOrder on its own
NoOrdering == [order |-> configOrder, preferred |-> "none", result |-> <<>>, pc |-> "idle"]

\* errors.join(', ')
RECURSIVE JoinErrors(_)
JoinErrors(errors) ==
  IF errors = <<>> THEN <<>>
  ELSE IF Len(errors) = 1 THEN errors[1]
  ELSE errors[1] \o <<", ">> \o JoinErrors(Tail(errors))

\* (mutant) the collected errors are left out of the message
ExhaustedResult_NoNames(errors, triedProviders) ==
  [isValid |-> FALSE,
   serviceUnavailable |-> TRUE,
   errors |-> << <<"All address validation services are unavailable">> >>,
   provider |-> IF triedProviders # <<>> THEN triedProviders[1] ELSE "smarty",
   latencyMs |-> 0,
   didFallback |-> TRUE]

\* executeWaterfallValidation, lines 183-191
ExhaustedResult(errors, triedProviders) ==
  [isValid |-> FALSE,
   serviceUnavailable |-> TRUE,
   errors |-> << <<"All address validation services are unavailable: ">>
                 \o JoinErrors(errors) >>,
   provider |-> IF triedProviders # <<>> THEN triedProviders[1] ELSE "smarty",
   latencyMs |-> 0,
   didFallback |-> TRUE]

\* executeHedgedValidation, lines 203-211
NoProvidersResult ==
  [isValid |-> FALSE,
   serviceUnavailable |-> TRUE,
   errors |-> << <<"No address validation providers are configured">> >>,
   provider |-> "smarty",
   latencyMs |-> 0]

\* (mutant) the flag is never set
DidFallback_Never(triedProviders) == FALSE

\* (mutant) the flag is set as soon as one provider was tried
DidFallback_AnyTried(triedProviders) == triedProviders # <<>>

\* executeWaterfallValidation, lines 160 and 173
DidFallback(triedProviders) == Len(triedProviders) > 1

\* (mutant) every result that is not valid sends the loop on
TryNextProvider_Always(result) == TRUE

\* executeWaterfallValidation, line 165: does the loop go on to the next
\* provider after a result that is not valid?
TryNextProvider(result) == Truthy(result, "serviceUnavailable")

\* line 166
UnavailableError(p, result) ==
  <<p, ": ">> \o (IF Has(result, "errors") /\ result.errors # <<>>
                  THEN result.errors[1] ELSE <<"Service unavailable">>)

\* line 178, for the error of executeWithTimeout's timer (line 250)
TimeoutError(p) == <<p, ": ", "Provider ", p, " timed out">>

\* (mutant) the error does not say whose breaker is open
BreakerOpenError_Unnamed(p) == <<"Circuit breaker is open">>

\* line 178, for the error of CircuitBreaker.execute (line 24)
BreakerOpenError(p) == <<p, ": ", "Circuit breaker is open">>

(***************************************************************************)
(* State of the callers, the runs and their guarded calls.                 *)
(***************************************************************************)
NoRun ==
  [status |-> "none", key |-> <<>>, mode |-> "waterfall", order |-> <<>>,
   idx |-> 0, triedProviders |-> <<>>, errors |-> <<>>]

\* a guarded call: delayed (its start timer is pending, delay is the time
\* left), calling (provider.validate is outstanding, elapsed is the time
\* since it began), late (the timer of executeWithTimeout has rejected the
\* call and provider.validate is still outstanding), or none
NoCall == [phase |-> "none", delay |-> 0, elapsed |-> 0, probe |-> FALSE]

\* (mutant) the guarded call is still outstanding after the timer has fired
LateCall_StillCalling ==
  [phase |-> "calling", delay |-> 0, elapsed |-> perProviderTimeoutMs, probe |-> FALSE]

\* executeWithTimeout, lines 249-251: the promise is rejected, and nothing
\* stops provider.validate
LateCall ==
  [phase |-> "late", delay |-> 0, elapsed |-> perProviderTimeoutMs, probe |-> FALSE]

Idle == [pc |-> "idle", run |-> 0]

\* what the last task did: for a call of validateAddress its key and where
\* its answer comes from (cache, inflight, executor); the dispatch mode of
\* the run the task belongs to; what happened to guarded calls (admit: the
\* breaker let the call through to provider.validate, reject: the breaker
\* threw, timeout: the timer fired, or the kind of result the provider
\* resolved with), with probe telling whether the call was let through by a
\* half-open breaker; the results handed to callers
\* the options of validateAddress: mode and preferredProvider
Options(mode, preferredProvider) ==
  [mode |-> mode, preferredProvider |-> preferredProvider]

\* last.asked: the options of a call that was answered from the cache or by
\* a promise in flight
NoLast ==
  [key |-> <<>>, via |-> "none", mode |-> "none", events |-> {}, delivered |-> {},
   asked |-> Options("none", "none")]

Event(p, ev, probe) == [provider |-> p, ev |-> ev, probe |-> probe]

\* the loop of executeWaterfallValidation from position i, up to the first
\* guarded call that reaches its provider (launched) or to the end of the
\* order: a disabled provider is skipped, a provider whose breaker rejects
\* the call is recorded as tried and failed
\* (mutant) every adapter reports itself enabled
isEnabled_Always(p) == TRUE

\* provider.isEnabled(): the adapter has its credentials
isEnabled(p) == p \in enabled

RECURSIVE WaterfallFrom(_, _, _, _, _, _)
WaterfallFrom(order, i, brk, tried, errors, evs) ==
  IF i > Len(order)
  THEN [launched |-> FALSE, idx |-> i, brk |-> brk, tried |-> tried,
        errors |-> errors, evs |-> evs]
  ELSE IF ~isEnabled(order[i])
  THEN WaterfallFrom(order, i + 1, brk, tried, errors, evs)
  ELSE IF BreakerAdmits(brk[order[i]])
  THEN [launched |-> TRUE, idx |-> i,
        brk |-> [brk EXCEPT ![order[i]] = BreakerEnter(@)],
        tried |-> Append(tried, order[i]), errors |-> errors,
        evs |-> evs \cup {Event(order[i], "admit", brk[order[i]].state # "closed")}]
  ELSE WaterfallFrom(order, i + 1, brk, Append(tried, order[i]),
                     Append(errors, BreakerOpenError(order[i])),
                     evs \cup {Event(order[i], "reject", FALSE)})

\* the guarded call that has just been started for provider p
NewCall(brk, p) ==
  [phase |-> "calling", delay |-> 0, elapsed |-> 0,
   probe |-> brk[p].state = "half-open"]

\* the executor of run s has not returned
Running(s) == runs[s].status = "running"

\* the callers waiting for run s
Waiters(s) == {r \in Slots : reqs[r].pc = "waiting" /\ reqs[r].run = s}

Delivered(slots, result) == {[slot |-> r, result |-> result] : r \in slots}

\* (mutant) a service-unavailable result is not stored
SettledCache_SkipUnavailable(c, key, result) ==
  IF Truthy(result, "serviceUnavailable")
  THEN c
  ELSE CacheSet(c, key, result, TtlFor(result, cacheTtlMs, negativeCacheTtlMs))

\* getOrExecute, lines 391-399: the executor's promise of run s resolves with
\* result; c is the cache and waiting the callers at that moment
SettledCache(c, key, result) ==
  CacheSet(c, key, result, TtlFor(result, cacheTtlMs, negativeCacheTtlMs))

(***************************************************************************)
(* validateAddress(input, {preferredProvider, mode}) by caller s, up to    *)
(* its first wait.                                                         *)
(***************************************************************************)
SlotFree(s) ==
  /\ reqs[s].pc = "idle"
  /\ runs[s].status = "none"
  /\ \A p \in AddressProvider : calls[s][p].phase = "none"

\* a cache hit
ValidateFromCache(s, key, options) ==
  /\ CacheHit(cache, key)
  /\ cache' = CacheAfterGet(cache, key)
  /\ last' = [NoLast EXCEPT !.key = key, !.via = "cache", !.asked = options,
                 !.delivered = Delivered({s}, CachedCopy(CacheEntry(cache, key)))]
  /\ UNCHANGED <<circuitBreakers, inFlightRequests, reqs, runs, calls>>

\* a miss, and a run for the key is in flight: its promise is returned
ValidateJoin(s, key, options) ==
  /\ ~CacheHit(cache, key)
  /\ InFlightGet(inFlightRequests, key) # 0
  /\ cache' = CacheAfterGet(cache, key)
  /\ reqs' = [reqs EXCEPT ![s] = [pc |-> "waiting",
                                  run |-> InFlightGet(inFlightRequests, key)]]
  /\ last' = [NoLast EXCEPT !.key = key, !.via = "inflight", !.asked = options]
  /\ UNCHANGED <<circuitBreakers, inFlightRequests, runs, calls>>

\* a miss, nothing in flight: the executor runs in waterfall mode
ValidateWaterfall(s, key, order) ==
  LET w == WaterfallFrom(order, 1, circuitBreakers, <<>>, <<>>, {})
      c == CacheAfterGet(cache, key)
      result == ExhaustedResult(w.errors, w.tried)
      base == [NoLast EXCEPT !.key = key, !.via = "executor",
                 !.mode = "waterfall", !.events = w.evs]
  IN
  /\ ~CacheHit(cache, key)
  /\ InFlightGet(inFlightRequests, key) = 0
  /\ circuitBreakers' = w.brk
  /\ IF w.launched
     THEN /\ runs' = [runs EXCEPT ![s] =
                       [status |-> "running", key |-> key, mode |-> "waterfall",
                        order |-> order, idx |-> w.idx,
                        triedProviders |-> w.tried, errors |-> w.errors]]
          /\ calls' = [calls EXCEPT ![s][order[w.idx]] = NewCall(w.brk, order[w.idx])]
          /\ inFlightRequests' = [inFlightRequests EXCEPT ![key] = s]
          /\ reqs' = [reqs EXCEPT ![s] = [pc |-> "waiting", run |-> s]]
          /\ cache' = c
          /\ last' = base
     ELSE /\ cache' = SettledCache(c, key, result)
          /\ last' = [base EXCEPT !.delivered = Delivered({s}, result)]
          /\ UNCHANGED <<inFlightRequests, reqs, runs, calls>>

\* (mutant) every timer is set to 0
HedgeDelay_Zero(i) == 0

\* executeHedgedValidation, line 222: the delay of the provider at position
\* i, counted from 0
HedgeDelay(i) == i * hedgeDelayMs

\* a miss, nothing in flight: the executor runs in hedged mode; every enabled
\* provider gets a timer, the first of delay 0
ValidateHedged(s, key, order) ==
  LET enabledProviders == SelectSeq(order, isEnabled)
      c == CacheAfterGet(cache, key)
      base == [NoLast EXCEPT !.key = key, !.via = "executor", !.mode = "hedged"]
  IN
  /\ ~CacheHit(cache, key)
  /\ InFlightGet(inFlightRequests, key) = 0
  /\ IF enabledProviders = <<>>
     THEN /\ cache' = SettledCache(c, key, NoProvidersResult)
          /\ last' = [base EXCEPT !.delivered = Delivered({s}, NoProvidersResult)]
          /\ UNCHANGED <<circuitBreakers, inFlightRequests, reqs, runs, calls>>
     ELSE /\ runs' = [runs EXCEPT ![s] =
                       [status |-> "running", key |-> key, mode |-> "hedged",
                        order |-> enabledProviders, idx |-> 0,
                        triedProviders |-> <<>>, errors |-> <<>>]]
          /\ calls' = [calls EXCEPT ![s] =
                        [p \in AddressProvider |->
                          IF \E i \in 1..Len(enabledProviders) : enabledProviders[i] = p
                          THEN [phase |-> "delayed",
                                delay |-> HedgeDelay(
                                        (CHOOSE i \in 1..Len(enabledProviders) :
                                            enabledProviders[i] = p) - 1),
                                elapsed |-> 0,
                                probe |-> FALSE]
                          ELSE NoCall]]
          /\ inFlightRequests' = [inFlightRequests EXCEPT ![key] = s]
          /\ reqs' = [reqs EXCEPT ![s] = [pc |-> "waiting", run |-> s]]
          /\ cache' = c
          /\ last' = base
          /\ UNCHANGED circuitBreakers

ValidateAddress(s, a, mode, preferredProvider) ==
  LET key == canonicalizeAddress(Addresses[a])
      order == getProviderOrder(preferredProvider)
  IN
  /\ SlotFree(s)
  /\ \/ ValidateFromCache(s, key, Options(mode, preferredProvider))
     \/ ValidateJoin(s, key, Options(mode, preferredProvider))
     \/ mode = "waterfall" /\ ValidateWaterfall(s, key, order)
     \/ mode = "hedged" /\ ValidateHedged(s, key, order)
  /\ UNCHANGED <<env, enabled, maxSize>>

(***************************************************************************)
(* The continuation of run s, in waterfall mode, after the guarded call of *)
(* provider p has settled: brk are the breakers after onSuccess/onFailure, *)
(* errors the errors so far, evs the breaker events of this task, and      *)
(* final either <<>> (the loop goes on) or <<result>> (the loop returns),   *)
(* and after what is left of the call (NoCall, or LateCall after a         *)
(* timeout).                                                               *)
(***************************************************************************)
WaterfallContinue(s, p, brk, errors, evs, final, after) ==
  LET run == runs[s]
      w == WaterfallFrom(run.order, run.idx + 1, brk, run.triedProviders, errors, evs)
      result == IF final # <<>> THEN final[1] ELSE ExhaustedResult(w.errors, w.tried)
      base == [NoLast EXCEPT !.mode = "waterfall"]
  IN
  IF final = <<>> /\ w.launched
  THEN /\ circuitBreakers' = w.brk
       /\ runs' = [runs EXCEPT ![s].idx = w.idx, ![s].triedProviders = w.tried,
                               ![s].errors = w.errors]
       /\ calls' = [calls EXCEPT ![s][p] = after,
                                 ![s][run.order[w.idx]] = NewCall(w.brk, run.order[w.idx])]
       /\ last' = [base EXCEPT !.events = w.evs]
       /\ UNCHANGED <<cache, inFlightRequests, reqs>>
  ELSE /\ circuitBreakers' = IF final = <<>> THEN w.brk ELSE brk
       /\ runs' = [runs EXCEPT ![s] = NoRun]
       /\ calls' = [calls EXCEPT ![s][p] = after]
       /\ inFlightRequests' = [inFlightRequests EXCEPT ![run.key] = 0]
       /\ cache' = SettledCache(cache, run.key, result)
       /\ reqs' = [r \in Slots |-> IF r \in Waiters(s) THEN Idle ELSE reqs[r]]
       /\ last' = [base EXCEPT !.events = IF final = <<>> THEN w.evs ELSE evs,
                               !.delivered = Delivered(Waiters(s), result)]

\* the race of executeHedgedValidation is decided by the first guarded call
\* that resolves; a call that settles later changes nothing but its breaker
HedgedSettle(s, p, brk, evs, final, after) ==
  LET run == runs[s]
      base == [NoLast EXCEPT !.mode = "hedged", !.events = evs]
  IN
  /\ circuitBreakers' = brk
  /\ calls' = [calls EXCEPT ![s][p] = after]
  /\ IF final # <<>> /\ run.status = "running"
     THEN /\ runs' = [runs EXCEPT ![s] = NoRun]
          /\ inFlightRequests' = [inFlightRequests EXCEPT ![run.key] = 0]
          /\ cache' = SettledCache(cache, run.key, final[1])
          /\ reqs' = [r \in Slots |-> IF r \in Waiters(s) THEN Idle ELSE reqs[r]]
          /\ last' = [base EXCEPT !.delivered = Delivered(Waiters(s), final[1])]
     ELSE /\ last' = base
          /\ UNCHANGED <<cache, inFlightRequests, reqs, runs>>

(***************************************************************************)
(* provider.validate(input) of the guarded call of run s resolves before   *)
(* the timer of executeWithTimeout fires.                                  *)
(***************************************************************************)
ProviderResolves(s, p, kind) ==
  LET run == runs[s]
      result == AdapterResult(p, kind, run.key, calls[s][p].elapsed)
      brk == AfterSuccess(circuitBreakers, p)
      evs == {Event(p, kind, calls[s][p].probe)}
  IN
  /\ calls[s][p].phase = "calling"
  /\ kind \in env.outcomes
  /\ IF run.status = "running" /\ run.mode = "waterfall"
     THEN IF result.isValid
          THEN WaterfallContinue(s, p, brk, run.errors, evs,
                 <<With(result, "didFallback", DidFallback(run.triedProviders))>>,
                 NoCall)
          ELSE IF TryNextProvider(result)
          THEN WaterfallContinue(s, p, brk,
                 Append(run.errors, UnavailableError(p, result)), evs, <<>>, NoCall)
          ELSE WaterfallContinue(s, p, brk, run.errors, evs,
                 <<With(result, "didFallback", DidFallback(run.triedProviders))>>,
                 NoCall)
     ELSE HedgedSettle(s, p, brk, evs, <<result>>, NoCall)
  /\ UNCHANGED <<env, enabled, maxSize>>

(***************************************************************************)
(* The timer of executeWithTimeout fires first: the guarded call rejects.  *)
(***************************************************************************)
TimerDue(s, p) ==
  /\ calls[s][p].phase = "calling"
  /\ calls[s][p].elapsed >= perProviderTimeoutMs

\* the provider is one that lets calls time out, and the failure counter is
\* below the bound of the model
MayTimeOut(p) ==
  /\ "timeout" \in env.outcomes
  /\ circuitBreakers[p].failures < MaxFailures

TimerFires(s, p) ==
  LET run == runs[s]
      brk == AfterFailure(circuitBreakers, p)
      evs == {Event(p, "timeout", calls[s][p].probe)}
  IN
  /\ TimerDue(s, p)
  /\ MayTimeOut(p)
  /\ IF run.status = "running" /\ run.mode = "waterfall"
     THEN WaterfallContinue(s, p, brk, Append(run.errors, TimeoutError(p)), evs,
                            <<>>, LateCall)
     ELSE HedgedSettle(s, p, brk, evs, <<>>, LateCall)
  /\ UNCHANGED <<env, enabled, maxSize>>

(***************************************************************************)
(* provider.validate settles after the timer of executeWithTimeout has     *)
(* fired (lines 254-261): clearTimeout of a timer that has fired, and      *)
(* resolve or reject of a promise that is settled already.                 *)
(***************************************************************************)
LateResolves(s, p) ==
  /\ calls[s][p].phase = "late"
  /\ calls' = [calls EXCEPT ![s][p] = NoCall]
  /\ last' = [NoLast EXCEPT !.mode = IF Running(s) THEN runs[s].mode ELSE "none",
                            !.events = {Event(p, "late", FALSE)}]
  /\ UNCHANGED <<env, enabled, maxSize, circuitBreakers, cache, inFlightRequests,
                 reqs, runs>>

(***************************************************************************)
(* The start timer of a hedged call fires: circuitBreaker.execute.         *)
(***************************************************************************)
HedgeDue(s, p) ==
  /\ calls[s][p].phase = "delayed"
  /\ calls[s][p].delay = 0

HedgeStart(s, p) ==
  LET admitted == BreakerAdmits(circuitBreakers[p])
      brk == [circuitBreakers EXCEPT ![p] = BreakerEnter(@)]
  IN
  /\ HedgeDue(s, p)
  /\ IF admitted
     THEN /\ circuitBreakers' = brk
          /\ calls' = [calls EXCEPT ![s][p] = NewCall(brk, p)]
     ELSE /\ calls' = [calls EXCEPT ![s][p] = NoCall]
          /\ UNCHANGED circuitBreakers
  /\ last' = [NoLast EXCEPT !.mode = "hedged",
                 !.events = {Event(p, IF admitted THEN "admit" ELSE "reject",
                                   admitted /\ circuitBreakers[p].state # "closed")}]
  /\ UNCHANGED <<env, enabled, maxSize, cache, inFlightRequests, reqs, runs>>

(***************************************************************************)
(* Time passes.  A timer that is due fires before the next unit, unless the *)
(* provider's answer comes first.                                          *)
(***************************************************************************)
Min(a, b) == IF a < b THEN a ELSE b

Tick ==
  /\ \A s \in Slots, p \in AddressProvider : ~TimerDue(s, p) /\ ~HedgeDue(s, p)
  /\ circuitBreakers' =
       [p \in AddressProvider |->
         [circuitBreakers[p] EXCEPT !.sinceLastFailure = Min(@ + 1, resetTimeoutMs)]]
  /\ cache' = [i \in 1..Len(cache) |->
                 [cache[i] EXCEPT !.age = Min(@ + 1, cache[i].ttl + 1)]]
  /\ calls' =
       [s \in Slots |-> [p \in AddressProvider |->
         CASE calls[s][p].phase = "delayed" ->
                [calls[s][p] EXCEPT !.delay = @ - 1]
           [] calls[s][p].phase = "calling" ->
                [calls[s][p] EXCEPT !.elapsed = Min(@ + 1, perProviderTimeoutMs)]
           [] OTHER -> calls[s][p]]]
  /\ last' = NoLast
  /\ UNCHANGED <<env, enabled, maxSize, inFlightRequests, reqs, runs>>

\* setInterval(() => addressCache.cleanup(), ...)
Cleanup ==
  /\ cache' = CacheCleanup(cache)
  /\ last' = [NoLast EXCEPT !.via = "cleanup"]
  /\ UNCHANGED <<env, enabled, maxSize, circuitBreakers, inFlightRequests, reqs, runs, calls>>

(***************************************************************************)
(* The adapters (providers/smartyService.ts, providers/googleService.ts,   *)
(* uspsService.ts).  A remote answer is a record: net = "fail" when fetch  *)
(* rejects, else the HTTP status and the body.  A JSON value that is not   *)
(* there (undefined) is Missing or the string Undefined; a message is a    *)
(* sequence of parts, cut so that every text the code searches a message   *)
(* for is a part of its own.  A function that may throw yields Threw or    *)
(* Returned; validate yields Resolved or Rejected.                         *)
(***************************************************************************)
Undefined == "undefined"
Missing == [missing |-> TRUE]

\* String.prototype.includes
Includes(message, part) == \E i \in 1..Len(message) : message[i] = part

Threw(message) == [threw |-> TRUE, message |-> message]
Returned(value) == [threw |-> FALSE, value |-> value]
Resolved(result) == [settled |-> "resolved", result |-> result]
Rejected(message) == [settled |-> "rejected", message |-> message]

\* { ...r, f: present ? v : undefined }
Optional(r, f, present, v) == IF present THEN With(r, f, v) ELSE r

NetworkFailure == [net |-> "fail"]

\* Date.now() - startTime
Latencies == {0, 1}

\* validate of a disabled adapter: smartyService.ts 102-110, googleService.ts
\* 100-108, uspsService.ts 122-130
NotConfigured(p, latencyMs) ==
  [isValid |-> FALSE, serviceUnavailable |-> TRUE,
   errors |-> << <<p, " address validation is not configured.">> >>,
   provider |-> p, latencyMs |-> latencyMs]

(***************************************************************************)
(* SmartyService.  Of a candidate the model keeps what validate reads:     *)
(* components (zipcode, plus4_code) and analysis; ews_match and footnote B *)
(* only add suggestions and are left out.                                  *)
(***************************************************************************)
SmartyAnalyses ==
  [dpv_match_y : {"true", Undefined},
   dpv_match_code : {"Y", "N", Undefined},
   dpv_vacancy : {"Y", Undefined},
   dpv_footnotes : {<<>>, <<"AA", "CC">>, <<"AA", "N1">>},
   footnotes : {<<>>, <<"A">>},
   suitelink_match : {"true", Undefined}]

SmartyComponents == [zipcode : {"95014"}, plus4_code : {"2084", Undefined}]

SmartyCandidates ==
  [components : SmartyComponents, analysis : SmartyAnalyses]
    \cup [components : {Missing}, analysis : SmartyAnalyses]
    \cup [components : SmartyComponents, analysis : {Missing}]

SmartyErrorTexts == { <<>>, <<"Invalid lookup">>, <<"Subscription ", "quota", " used up">> }

SmartyResponses ==
  {NetworkFailure}
    \cup { [net |-> "ok", status |-> "200", body |-> b] :
             b \in { [kind |-> "unparseable"], [kind |-> "null"], [kind |-> "object"],
                     [kind |-> "array", items |-> <<>>] }
                   \cup { [kind |-> "array", items |-> <<c>>] : c \in SmartyCandidates } }
    \cup { [net |-> "ok", status |-> st, body |-> b] :
             st \in {"401", "403", "429", "500"},
             b \in { [kind |-> "unparseable"] }
                   \cup { [kind |-> "object", message |-> m] : m \in SmartyErrorTexts } }

\* callSmartyAPI, lines 183-218
callSmartyAPI(response) ==
  IF response.net = "fail" THEN Threw(<<"fetch failed">>)
  ELSE IF response.status # "200"
  THEN IF response.status = "429"
       THEN Threw(<<"Smarty ", "rate limit", " exceeded">>)
       ELSE IF response.status \in {"401", "403"}
       THEN Threw(<<"Smarty authentication failed">>)
       ELSE IF response.body.kind = "object" /\ response.body.message # <<>>
       THEN Threw(response.body.message)
       ELSE Threw(<<"Smarty API error: ", response.status>>)
  ELSE IF response.body.kind = "unparseable"
  THEN Threw(<<"Unexpected token in JSON">>)
  ELSE Returned(response.body)

\* (mutant) a vacant address is not told apart
SmartyIsVacant_Never(analysis) == FALSE

\* mapResponse, line 237
SmartyIsVacant(analysis) == analysis.dpv_vacancy = "Y"

\* (mutant) a verified suite counts as much as the delivery point
SmartyConfidence_SuiteAs60(isValid, components, analysis) ==
  (IF isValid THEN 60 ELSE 0)
  + (IF analysis.suitelink_match = "true" THEN 60 ELSE 0)
  + (IF components.plus4_code # Undefined THEN 10 ELSE 0)
  + (IF Includes(analysis.footnotes, "A") THEN 10 ELSE 0)

\* mapResponse, lines 280-285; isValid is the delivery-point match of line 236
SmartyConfidence(isValid, components, analysis) ==
  (IF isValid THEN 60 ELSE 0)
  + (IF analysis.suitelink_match = "true" THEN 20 ELSE 0)
  + (IF components.plus4_code # Undefined THEN 10 ELSE 0)
  + (IF Includes(analysis.footnotes, "A") THEN 10 ELSE 0)

\* mapResponse, lines 220-296
SmartyMapResponse(candidate, latencyMs) ==
  IF candidate.components = Missing \/ candidate.analysis = Missing
  THEN [isValid |-> FALSE,
        errors |-> << <<"Invalid response from address validation service">> >>,
        provider |-> "smarty", latencyMs |-> latencyMs]
  ELSE
    LET components == candidate.components
        analysis == candidate.analysis
        isValid == analysis.dpv_match_y = "true" \/ analysis.dpv_match_code = "Y"
        isVacant == SmartyIsVacant(analysis)
        standardizedAddress ==
          [streetAddress |-> <<"1 MAIN ST">>, city |-> <<"CUPERTINO">>,
           state |-> <<"CA">>, ZIPCode |-> <<components.zipcode>>,
           ZIPPlus4 |-> IF components.plus4_code # Undefined
                        THEN <<components.zipcode, "-", components.plus4_code>>
                        ELSE <<components.zipcode>>]
        suggestions ==
          (IF Includes(analysis.footnotes, "A")
           THEN << <<"Address matched at the ZIP+4 level">> >> ELSE <<>>)
          \o (IF analysis.suitelink_match = "true"
              THEN << <<"Suite/apartment number verified">> >> ELSE <<>>)
        errors ==
          (IF isVacant THEN << <<"This address appears to be vacant.">> >> ELSE <<>>)
          \o (IF Includes(analysis.dpv_footnotes, "CC")
              THEN << <<"Invalid city/state/ZIP combination.">> >> ELSE <<>>)
          \o (IF Includes(analysis.dpv_footnotes, "N1")
              THEN << <<"Primary number is invalid.">> >> ELSE <<>>)
        confidence == SmartyConfidence(isValid, components, analysis)
    IN
    Optional(
      Optional(
        Optional([isValid |-> isValid /\ ~isVacant, provider |-> "smarty",
                  latencyMs |-> latencyMs, confidence |-> confidence],
                 "standardizedAddress", isValid, standardizedAddress),
        "suggestions", suggestions # <<>>, suggestions),
      "errors", errors # <<>>, errors)

\* (mutant) validate lets the error through
SmartyCatch_Rethrow(message, latencyMs) == Rejected(message)

\* validate, lines 135-170: the catch block
SmartyCatch(message, latencyMs) ==
  IF Includes(message, "429") \/ Includes(message, "quota")
     \/ Includes(message, "rate limit")
  THEN Resolved([isValid |-> FALSE, serviceUnavailable |-> TRUE,
                 errors |-> << <<"Smarty service rate limit reached. Please try again later.">> >>,
                 provider |-> "smarty", latencyMs |-> latencyMs])
  ELSE IF Includes(message, "401") \/ Includes(message, "403")
  THEN Resolved([isValid |-> FALSE, serviceUnavailable |-> TRUE,
                 errors |-> << <<"Smarty authentication failed. Please check API credentials.">> >>,
                 provider |-> "smarty", latencyMs |-> latencyMs])
  ELSE Resolved([isValid |-> FALSE,
                 errors |-> << <<"Address validation failed. Please try again.">> >>,
                 provider |-> "smarty", latencyMs |-> latencyMs])

\* validate, lines 112-134, once the answer of the remote call is there
SmartyValidate(response, latencyMs) ==
  LET call == callSmartyAPI(response) IN
  IF call.threw THEN SmartyCatch(call.message, latencyMs)
  ELSE IF call.value.kind = "null"
          \/ (call.value.kind = "array" /\ call.value.items = <<>>)
  THEN Resolved([isValid |-> FALSE,
                 errors |-> << <<"Address not found or invalid.">> >>,
                 suggestions |-> << <<"Please check the address and try again.">> >>,
                 provider |-> "smarty", latencyMs |-> latencyMs])
  ELSE IF call.value.kind = "object"
  THEN \* result[0] is undefined and mapResponse throws a TypeError
       SmartyCatch(<<"Cannot destructure property 'components'">>, latencyMs)
  ELSE Resolved(SmartyMapResponse(call.value.items[1], latencyMs))

(***************************************************************************)
(* GoogleService.  Of an answer the model keeps what validate reads: the   *)
(* verdict, the unconfirmed components of the address and uspsData.        *)
(* hasReplacedComponents and hasInferredComponents only add suggestions    *)
(* and are left out.                                                       *)
(***************************************************************************)
GoogleVerdicts ==
  [addressComplete : {"true", Undefined},
   hasUnconfirmedComponents : {"true", Undefined}]

\* address.addressComponents, by confirmationLevel
GoogleAddresses ==
  [addressComponents : { <<"CONFIRMED">>, <<"CONFIRMED", "UNCONFIRMED_BUT_PLAUSIBLE">> }]

GoogleUspsData ==
  [dpvConfirmation : {"Y", "N", Undefined},
   vacant : {"Y", Undefined},
   zipCode : {"95014"},
   zipCodeExtension : {"2084", Undefined}]

GoogleResults ==
  [verdict : GoogleVerdicts, address : GoogleAddresses,
   uspsData : GoogleUspsData \cup {Missing}]
    \cup [verdict : {Missing}, address : GoogleAddresses, uspsData : {Missing}]
    \cup [verdict : GoogleVerdicts, address : {Missing}, uspsData : {Missing}]

GoogleErrorTexts ==
  { <<>>, <<"API key not valid. Please pass a valid API key.">>,
    <<"Quota exceeded for quota metric 'Requests'">>,
    <<"RATE_LIMIT_EXCEEDED", ": too many requests">> }

GoogleErrorStatuses ==
  {"UNAUTHENTICATED", "PERMISSION_DENIED", "QUOTA_EXCEEDED", "INVALID_ARGUMENT"}

GoogleResponses ==
  {NetworkFailure}
    \cup { [net |-> "ok", status |-> "200", body |-> b] :
             b \in { [kind |-> "unparseable"], [kind |-> "object", result |-> Missing] }
                   \cup { [kind |-> "object", result |-> r] : r \in GoogleResults } }
    \cup { [net |-> "ok", status |-> st, body |-> b] :
             st \in {"400", "401", "403", "429", "500"},
             b \in { [kind |-> "unparseable"], [kind |-> "object", error |-> Missing] }
                   \cup { [kind |-> "object", error |-> [message |-> m, status |-> es]] :
                            m \in GoogleErrorTexts, es \in GoogleErrorStatuses } }

\* callGoogleAPI, lines 171-203.  The errors thrown at lines 190 and 193 are
\* thrown inside the try block of line 185 and caught at line 195: what
\* leaves the function is the error of line 199, with the message of the
\* body when it has one
callGoogleAPI(response) ==
  IF response.net = "fail" THEN Threw(<<"fetch failed">>)
  ELSE IF response.status # "200"
  THEN IF /\ response.body.kind = "object"
          /\ response.body.error # Missing
          /\ response.body.error.message # <<>>
       THEN Threw(response.body.error.message)
       ELSE Threw(<<"Google API error: ", response.status>>)
  ELSE IF response.body.kind = "unparseable"
  THEN Threw(<<"Unexpected token in JSON">>)
  ELSE Returned(response.body)

\* mapResponse, line 213
GoogleIsVacant(uspsData) == uspsData # Missing /\ uspsData.vacant = "Y"

\* mapResponse, lines 205-289, for a result whose verdict is there and whose
\* address is there when it is read; isValid, which the code leaves
\* undefined when addressComplete is, is false then
GoogleMapResponse(result, latencyMs) ==
  LET verdict == result.verdict
      uspsData == result.uspsData
      isAddressComplete == verdict.addressComplete = "true"
      hasUnconfirmedComponents == verdict.hasUnconfirmedComponents = "true"
      uspsValid == uspsData # Missing /\ uspsData.dpvConfirmation = "Y"
      isVacant == GoogleIsVacant(uspsData)
      isValid == isAddressComplete /\ (uspsValid \/ ~hasUnconfirmedComponents)
                 /\ ~isVacant
      hasExtension == uspsData # Missing /\ uspsData.zipCodeExtension # Undefined
      standardizedAddress ==
        IF uspsData # Missing
        THEN [streetAddress |-> <<"1 MAIN ST">>, city |-> <<"CUPERTINO">>,
              state |-> <<"CA">>, ZIPCode |-> <<uspsData.zipCode>>,
              ZIPPlus4 |-> IF hasExtension
                           THEN <<uspsData.zipCode, "-", uspsData.zipCodeExtension>>
                           ELSE <<uspsData.zipCode>>]
        ELSE [streetAddress |-> <<"1 MAIN ST">>, city |-> <<"CUPERTINO">>,
              state |-> <<"CA">>, ZIPCode |-> <<"95014">>]
      unconfirmedComponents ==
        IF hasUnconfirmedComponents
        THEN SelectSeq(result.address.addressComponents,
                       LAMBDA level : level = "UNCONFIRMED_BUT_PLAUSIBLE")
        ELSE <<>>
      suggestions ==
        (IF uspsValid THEN << <<"Address validated by USPS">> >> ELSE <<>>)
        \o (IF hasExtension
            THEN << <<"ZIP+4 code available for better delivery">> >> ELSE <<>>)
      errors ==
        (IF isVacant THEN << <<"This address appears to be vacant.">> >> ELSE <<>>)
        \o (IF unconfirmedComponents # <<>>
            THEN << <<"Unconfirmed address components: ">> \o unconfirmedComponents >>
            ELSE <<>>)
        \o (IF uspsData # Missing /\ uspsData.dpvConfirmation = "N"
            THEN << <<"Address not deliverable according to USPS">> >> ELSE <<>>)
      confidence ==
        (IF isAddressComplete THEN 40 ELSE 0)
        + (IF uspsValid THEN 30 ELSE 0)
        + (IF ~hasUnconfirmedComponents THEN 20 ELSE 0)
        + (IF hasExtension THEN 10 ELSE 0)
  IN
  Optional(
    Optional(
      Optional([isValid |-> isValid, provider |-> "google",
                latencyMs |-> latencyMs, confidence |-> confidence],
               "standardizedAddress", isValid, standardizedAddress),
      "suggestions", suggestions # <<>>, suggestions),
    "errors", errors # <<>>, errors)

\* validate, lines 117-151: the catch block
GoogleCatch(message, latencyMs) ==
  IF Includes(message, "QUOTA_EXCEEDED") \/ Includes(message, "RATE_LIMIT_EXCEEDED")
  THEN Resolved([isValid |-> FALSE, serviceUnavailable |-> TRUE,
                 errors |-> << <<"Google service quota exceeded. Please try again later.">> >>,
                 provider |-> "google", latencyMs |-> latencyMs])
  ELSE IF Includes(message, "UNAUTHENTICATED") \/ Includes(message, "401")
  THEN Resolved([isValid |-> FALSE, serviceUnavailable |-> TRUE,
                 errors |-> << <<"Google authentication failed. Please check API key.">> >>,
                 provider |-> "google", latencyMs |-> latencyMs])
  ELSE Resolved([isValid |-> FALSE,
                 errors |-> << <<"Address validation failed. Please try again.">> >>,
                 provider |-> "google", latencyMs |-> latencyMs])

\* mapResponse reads a property of undefined and throws a TypeError: result
\* is not there (line 207), the verdict is not there (line 210), or the
\* address is not there where it is read (lines 229 and 260)
GoogleMalformed(result) ==
  \/ result = Missing
  \/ result.verdict = Missing
  \/ /\ result.address = Missing
     /\ result.uspsData = Missing \/ result.verdict.hasUnconfirmedComponents = "true"

\* validate, lines 110-116, once the answer of the remote call is there
GoogleValidate(response, latencyMs) ==
  LET call == callGoogleAPI(response) IN
  IF call.threw THEN GoogleCatch(call.message, latencyMs)
  ELSE IF GoogleMalformed(call.value.result)
  THEN GoogleCatch(<<"Cannot read properties of undefined">>, latencyMs)
  ELSE Resolved(GoogleMapResponse(call.value.result, latencyMs))

(***************************************************************************)
(* USPSService.  Of an answer the model keeps what validateAddress reads:  *)
(* the address (ZIPCode, ZIPPlus4), additionalInfo and the corrections;    *)
(* matches and warnings only add suggestions and are left out.             *)
(***************************************************************************)
\* the lifetimes the token endpoint states (expires_in), in seconds
ExpiresIn == {1, 2}

USPSTokenResponses ==
  {NetworkFailure}
    \cup { [net |-> "ok", status |-> st, body |-> [kind |-> "unparseable"]] :
             st \in {"200", "401", "429", "500"} }
    \cup { [net |-> "ok", status |-> "200",
             body |-> [kind |-> "object", expires_in |-> n]] : n \in ExpiresIn }

\* getAccessToken, lines 259-300, when no valid token is cached: the error of
\* line 285 is caught at line 297 like every other
getAccessToken(response) ==
  IF response.net = "fail" \/ response.status # "200"
     \/ response.body.kind = "unparseable"
  THEN Threw(<<"Failed to obtain USPS access token">>)
  ELSE Returned("token")

USPSAdditionalInfo ==
  [DPVConfirmation : {"Y", "N", Undefined}, vacant : {"Y", "N", Undefined}]

USPSBodies ==
  [kind : {"object"},
   address : [ZIPCode : {"95014"}, ZIPPlus4 : {"2084", Undefined}],
   additionalInfo : USPSAdditionalInfo \cup {Missing},
   corrections : { <<>>, << <<"Default address">> >> }]
    \cup [kind : {"object"}, address : {Missing},
          additionalInfo : USPSAdditionalInfo, corrections : { <<>> }]

USPSResponses ==
  {NetworkFailure}
    \cup { [net |-> "ok", status |-> "200", body |-> b] :
             b \in { [kind |-> "unparseable"] } \cup USPSBodies }
    \cup { [net |-> "ok", status |-> st, body |-> [kind |-> k]] :
             st \in {"400", "401", "403", "404", "429", "500"},
             k \in {"text", "unreadable"} }

\* validateAddress, lines 233-250: the catch block
USPSCatch(message, latencyMs) ==
  LET isServiceUnavailable ==
        \/ Includes(message, "Failed to obtain USPS access token")
        \/ Includes(message, "USPS OAuth failed")
  IN
  Resolved([isValid |-> FALSE, serviceUnavailable |-> isServiceUnavailable,
            errors |-> IF isServiceUnavailable
                       THEN << <<"USPS address validation service is temporarily unavailable.">> >>
                       ELSE << <<"Address validation failed. Please check the address and try again.">> >>,
            provider |-> "usps", latencyMs |-> latencyMs])

\* validateAddress, line 189
USPSIsVacant(body) ==
  body.additionalInfo # Missing /\ body.additionalInfo.vacant = "Y"

\* validateAddress, lines 184-231: a 200 answer whose body has an address
USPSMapResponse(body, latencyMs) ==
  LET dpvConfirmation ==
        IF body.additionalInfo # Missing THEN body.additionalInfo.DPVConfirmation
        ELSE Undefined
      isVacant == USPSIsVacant(body)
      isValid == dpvConfirmation = "Y" /\ ~isVacant
      standardizedAddress ==
        Optional([streetAddress |-> <<"1 MAIN ST">>, city |-> <<"CUPERTINO">>,
                  state |-> <<"CA">>, ZIPCode |-> <<body.address.ZIPCode>>],
                 "ZIPPlus4", body.address.ZIPPlus4 # Undefined,
                 <<body.address.ZIPPlus4>>)
      suggestions ==
        [i \in 1..Len(body.corrections) |-> <<"Correction: ">> \o body.corrections[i]]
  IN
  Optional(
    Optional([isValid |-> isValid, standardizedAddress |-> standardizedAddress,
              provider |-> "usps", latencyMs |-> latencyMs,
              confidence |-> IF isVacant THEN 60 ELSE 80],
             "suggestions", suggestions # <<>>, suggestions),
    "errors", isVacant, << <<"This address appears to be vacant.">> >>)

\* validateAddress, lines 153-231, once the lookup's answer is there
USPSValidate(response, latencyMs) ==
  IF response.net = "fail" THEN USPSCatch(<<"fetch failed">>, latencyMs)
  ELSE IF response.status # "200"
  THEN IF response.status = "404"
       THEN Resolved([isValid |-> FALSE,
                      errors |-> << <<"Address not found. Please check the address and try again.">> >>,
                      provider |-> "usps", latencyMs |-> latencyMs])
       ELSE IF response.body.kind = "unreadable"
       THEN USPSCatch(<<"body stream failed">>, latencyMs)
       ELSE Resolved([isValid |-> FALSE,
                      errors |-> << <<"Address validation failed. Please check the address and try again.">> >>,
                      provider |-> "usps", latencyMs |-> latencyMs])
  ELSE IF response.body.kind = "unparseable"
  THEN USPSCatch(<<"Unexpected token in JSON">>, latencyMs)
  ELSE IF response.body.address = Missing
  THEN USPSCatch(<<"Cannot read properties of undefined">>, latencyMs)
  ELSE Resolved(USPSMapResponse(response.body, latencyMs))

(***************************************************************************)
(* A call of an adapter's validate: adapter.pc tells where it is (idle,    *)
(* waiting for the token, waiting for the lookup, done), adapter.requests  *)
(* counts the requests it has sent, adapter.token tells whether USPS has a *)
(* cached token: adapter.expiresIn is the lifetime the token endpoint      *)
(* stated for it (seconds), adapter.tokenExpiry the expiry that was cached *)
(* (tenths of a second after the token was received) and adapter.tokenAge  *)
(* the time since it was received (seconds, counted up to the stated       *)
(* lifetime).                                                              *)
(***************************************************************************)
\* the constructors: the credentials are there
isConfigured(p) == p \in enabled

NoResponse == [net |-> "none"]

NoAdapter ==
  [pc |-> "idle", provider |-> "none", requests |-> 0, token |-> FALSE,
   expiresIn |-> 0, tokenExpiry |-> 0, tokenAge |-> 0,
   tokenResponse |-> NoResponse, response |-> NoResponse,
   outcome |-> [settled |-> "none"]]

\* the adapters are called by themselves, not through the orchestrator
Direct == env.callers = {}

\* (mutant) a cached token is reused whatever its age
TokenValid_Ever(token, tokenAge, tokenExpiry) == token

\* getAccessToken, line 255: new Date() < this.tokenExpiry
TokenValid(token, tokenAge, tokenExpiry) == token /\ tokenAge * 10 < tokenExpiry

\* getAccessToken, lines 291-292: parseInt(expires_in) * 1000 * 0.9 after now
TokenExpiry(expires_in) == expires_in * 9

AdapterValidate(p) ==
  /\ Direct
  /\ adapter.pc = "idle"
  /\ adapter' =
       IF ~isConfigured(p)
       THEN [adapter EXCEPT !.pc = "done", !.provider = p,
                            !.outcome = Resolved(NotConfigured(p, 0))]
       ELSE IF p = "usps"
               /\ ~TokenValid(adapter.token, adapter.tokenAge, adapter.tokenExpiry)
       THEN [adapter EXCEPT !.pc = "token", !.provider = p, !.requests = 1]
       ELSE [adapter EXCEPT !.pc = "lookup", !.provider = p, !.requests = 1]
  /\ UNCHANGED <<orchestratorVars, canon, ordering>>

\* the token request is answered
TokenResponds(response, latencyMs) ==
  /\ adapter.pc = "token"
  /\ adapter' =
       IF getAccessToken(response).threw
       THEN [adapter EXCEPT !.pc = "done", !.tokenResponse = response,
                            !.outcome = USPSCatch(getAccessToken(response).message,
                                                  latencyMs)]
       ELSE [adapter EXCEPT !.pc = "lookup", !.tokenResponse = response,
                            !.token = TRUE,
                            !.expiresIn = response.body.expires_in,
                            !.tokenExpiry = TokenExpiry(response.body.expires_in),
                            !.tokenAge = 0,
                            !.requests = @ + 1]
  /\ UNCHANGED <<orchestratorVars, canon, ordering>>

\* the lookup is answered
LookupResponds(response, latencyMs) ==
  /\ adapter.pc = "lookup"
  /\ adapter' =
       [adapter EXCEPT
          !.pc = "done", !.response = response,
          !.outcome = CASE adapter.provider = "smarty" -> SmartyValidate(response, latencyMs)
                        [] adapter.provider = "google" -> GoogleValidate(response, latencyMs)
                        [] OTHER -> USPSValidate(response, latencyMs)]
  /\ UNCHANGED <<orchestratorVars, canon, ordering>>

\* the caller has the outcome; the adapter keeps its token
AdapterReturns ==
  /\ adapter.pc = "done"
  /\ adapter' = [NoAdapter EXCEPT !.token = adapter.token,
                                  !.expiresIn = adapter.expiresIn,
                                  !.tokenExpiry = adapter.tokenExpiry,
                                  !.tokenAge = adapter.tokenAge]
  /\ UNCHANGED <<orchestratorVars, canon, ordering>>

\* getAccessToken, line 255: a second passes between two calls of validate
\* (new Date()); the time a call takes is time before the next call
TokenExpires ==
  /\ adapter.pc = "idle" /\ adapter.token
  /\ adapter.tokenAge < adapter.expiresIn
  /\ adapter' = [adapter EXCEPT !.tokenAge = @ + 1]
  /\ UNCHANGED <<orchestratorVars, canon, ordering>>

ResponsesOf(p) ==
  CASE p = "smarty" -> SmartyResponses
    [] p = "google" -> GoogleResponses
    [] OTHER -> USPSResponses

AdapterNext ==
  \/ \E p \in AddressProvider : AdapterValidate(p)
  \/ /\ adapter.pc = "token"
     /\ \E response \in USPSTokenResponses, latencyMs \in Latencies :
          TokenResponds(response, latencyMs)
  \/ /\ adapter.pc = "lookup"
     /\ \E response \in ResponsesOf(adapter.provider), latencyMs \in Latencies :
          LookupResponds(response, latencyMs)
  \/ AdapterReturns
  \/ TokenExpires

(***************************************************************************)
(* The configurations explored: the callers (how many, with which options) *)
(* and the providers' behaviour (env), the providers that have credentials *)
(* (enabled), and the capacity the cache was constructed with (maxSize: 1, *)
(* so that the second key stored evicts the first).                        *)
(***************************************************************************)
Outcomes == ResultKinds \cup {"timeout"}

\* no caller of the orchestrator
Detached ==
  [env |-> [callers |-> {}, modes |-> {}, preferred |-> {}, outcomes |-> {}],
   enabled |-> {}, maxSize |-> 1]

Configurations ==
  \* two concurrent callers, one provider with credentials
  { [env |-> [callers |-> {1, 2}, modes |-> Modes, preferred |-> {"none"},
              outcomes |-> Outcomes],
     enabled |-> {"smarty"}, maxSize |-> 1] }
  \cup
  \* one caller, any providers with credentials, any options, providers that
  \* answer in time
  { [env |-> [callers |-> {1}, modes |-> Modes,
              preferred |-> AddressProvider \cup {"none"},
              outcomes |-> ResultKinds],
     enabled |-> e, maxSize |-> 1] : e \in SUBSET AddressProvider }
  \cup
  \* one caller, every provider with credentials, providers that are
  \* unavailable or time out
  { [env |-> [callers |-> {1}, modes |-> Modes, preferred |-> {"none"},
              outcomes |-> {"unavailable", "timeout"}],
     enabled |-> AddressProvider, maxSize |-> 1] }
  \cup
  \* two concurrent callers in waterfall mode, two providers with
  \* credentials that answer with a valid result or time out
  { [env |-> [callers |-> {1, 2}, modes |-> {"waterfall"}, preferred |-> {"none"},
              outcomes |-> {"valid", "timeout"}],
     enabled |-> {"smarty", "google"}, maxSize |-> 1] }
  \cup
  \* no caller of the orchestrator: the adapters are called by themselves,
  \* with all the credentials or with none
  { [Detached EXCEPT !.enabled = e] : e \in {{}, AddressProvider} }

\* the orchestrator and the cache as constructed, in configuration c
Constructed(c) ==
  /\ env = c.env /\ enabled = c.enabled /\ maxSize = c.maxSize
  /\ circuitBreakers = [p \in AddressProvider |-> NewCircuitBreaker]
  /\ cache = <<>>
  /\ inFlightRequests = [k \in Keys |-> 0]
  /\ reqs = [s \in Slots |-> Idle]
  /\ runs = [s \in Slots |-> NoRun]
  /\ calls = [s \in Slots |-> [p \in AddressProvider |-> NoCall]]
  /\ last = NoLast

\* no input is being canonicalized on its own
NoCanon ==
  [input |-> Addresses[1], first |-> Addresses[1],
   key |-> canonicalizeAddress(Addresses[1]), edits |-> 0]

Init ==
  /\ \E c \in Configurations : Constructed(c)
  /\ canon = NoCanon
  /\ adapter = NoAdapter
  /\ ordering = NoOrdering

Next ==
  \/ /\ \E s \in env.callers, a \in 1..Len(Addresses), mode \in env.modes,
           preferredProvider \in env.preferred :
          ValidateAddress(s, a, mode, preferredProvider)
     /\ UNCHANGED <<canon, adapter, ordering>>
  \/ /\ \E s \in Slots, p \in AddressProvider, kind \in ResultKinds :
          ProviderResolves(s, p, kind)
     /\ UNCHANGED <<canon, adapter, ordering>>
  \/ /\ \E s \in Slots, p \in AddressProvider : TimerFires(s, p)
     /\ UNCHANGED <<canon, adapter, ordering>>
  \/ /\ \E s \in Slots, p \in AddressProvider : LateResolves(s, p)
     /\ UNCHANGED <<canon, adapter, ordering>>
  \/ /\ \E s \in Slots, p \in AddressProvider : HedgeStart(s, p)
     /\ UNCHANGED <<canon, adapter, ordering>>
  \/ Tick /\ UNCHANGED <<canon, adapter, ordering>>
  \/ Cleanup /\ UNCHANGED <<canon, adapter, ordering>>
  \/ AdapterNext

AdapterInit ==
  /\ \E e \in SUBSET AddressProvider : Constructed([Detached EXCEPT !.enabled = e])
  /\ canon = NoCanon
  /\ adapter = NoAdapter
  /\ ordering = NoOrdering

AdapterSpec == AdapterInit /\ [][AdapterNext]_vars

Spec == Init /\ [][Next]_vars

(***************************************************************************)
(* canonicalizeAddress on its own: an input, rewritten step by step into   *)
(* other ways of writing the same address (letter case, whitespace around  *)
(* a field, the length of whitespace runs) and into its canonical form.    *)
(* canon.first is the input as it was first written and canon.key the key  *)
(* of that.                                                                *)
(***************************************************************************)
LowerChar(c) ==
  CASE c = "A" -> "a"
    [] c = "B" -> "b"
    [] c = "M" -> "m"
    [] c = "S" -> "s"
    [] OTHER -> c

SwapCase(c) == IF UpperChar(c) # c THEN UpperChar(c) ELSE LowerChar(c)

\* the fields whose whitespace is collapsed (lines 311-313)
TextFields == {"streetAddress", "secondaryAddress", "city"}

CanonInputs ==
  { [streetAddress |-> st, secondaryAddress |-> se, city |-> ci,
     state |-> <<"a", "s">>, ZIPCode |-> z] :
      st \in { <<"1", " ", "a">>, <<"b", "\t", "m">> },
      se \in { <<>>, <<"s">> },
      ci \in { <<>>, <<"m", " ", "a">> },
      z \in { <<>>, <<"1", "-", "2">> } }

\* s with c put in after its first i characters
InsertAt(s, i, c) == SubSeq(s, 1, i) \o <<c>> \o SubSeq(s, i + 1, Len(s))

Rewritten(f, text) ==
  /\ canon.edits < MaxEdits
  /\ canon' = [canon EXCEPT !.input[f] = text, !.edits = @ + 1]
  /\ UNCHANGED <<orchestratorVars, adapter, ordering>>

\* one letter of a text field or of the state in the other case
ChangeCase(f, i) ==
  /\ SwapCase(canon.input[f][i]) # canon.input[f][i]
  /\ Rewritten(f, [canon.input[f] EXCEPT ![i] = SwapCase(@)])

\* whitespace before or after a text field
PadWhitespace(f, w, atEnd) ==
  Rewritten(f, IF atEnd THEN canon.input[f] \o <<w>> ELSE <<w>> \o canon.input[f])

\* a whitespace run of a text field made longer by one character
StretchWhitespace(f, i, w) ==
  /\ canon.input[f][i] \in Whitespace
  /\ Rewritten(f, InsertAt(canon.input[f], i, w))

\* a whitespace run of two characters or more made shorter by one
ShrinkWhitespace(f, i) ==
  /\ i < Len(canon.input[f])
  /\ canon.input[f][i] \in Whitespace /\ canon.input[f][i + 1] \in Whitespace
  /\ Rewritten(f, SubSeq(canon.input[f], 1, i - 1)
                    \o SubSeq(canon.input[f], i + 1, Len(canon.input[f])))

\* each field as canonicalizeAddress writes it (lines 311-315)
CanonicalForm(input) ==
  [streetAddress |-> CollapseWhitespace(toUpperCase(trim(input.streetAddress))),
   secondaryAddress |-> CollapseWhitespace(toUpperCase(trim(input.secondaryAddress))),
   city |-> CollapseWhitespace(toUpperCase(trim(input.city))),
   state |-> toUpperCase(trim(input.state)),
   ZIPCode |-> KeepDigitsAndHyphens(trim(input.ZIPCode))]

\* the input replaced by its canonical form
Canonicalize ==
  /\ canon.input # CanonicalForm(canon.input)
  /\ canon' = [canon EXCEPT !.input = CanonicalForm(canon.input)]
  /\ UNCHANGED <<orchestratorVars, adapter, ordering>>

CanonInit ==
  /\ Constructed(Detached)
  /\ \E input \in CanonInputs :
       canon = [input |-> input, first |-> input,
                key |-> canonicalizeAddress(input), edits |-> 0]
  /\ adapter = NoAdapter
  /\ ordering = NoOrdering

CanonNext ==
  \/ \E f \in TextFields \cup {"state"}, i \in 1..(3 + MaxEdits) :
       i <= Len(canon.input[f]) /\ ChangeCase(f, i)
  \/ \E f \in TextFields, w \in Whitespace, atEnd \in BOOLEAN :
       PadWhitespace(f, w, atEnd)
  \/ \E f \in TextFields, i \in 1..(3 + MaxEdits), w \in Whitespace :
       i <= Len(canon.input[f]) /\ StretchWhitespace(f, i, w)
  \/ \E f \in TextFields, i \in 1..(3 + MaxEdits) :
       i <= Len(canon.input[f]) /\ ShrinkWhitespace(f, i)
  \/ Canonicalize

CanonSpec == CanonInit /\ [][CanonNext]_vars

(***************************************************************************)
(* canonicalizeAddress on two addresses: an input, rewritten field by      *)
(* field into another address.                                             *)
(***************************************************************************)
\* what a text field is replaced by: nothing (absent or empty) or a text
FieldTexts == { <<>>, <<"s">>, <<"m", " ", "a">> }

\* a text field of the input replaced by another text
ReplaceField(f, text) ==
  /\ text # canon.input[f]
  /\ Rewritten(f, text)

KeyNext ==
  \E f \in TextFields, text \in FieldTexts : ReplaceField(f, text)

KeySpec == CanonInit /\ [][KeyNext]_vars

(***************************************************************************)
(* getProviderOrder on its own, on the order getAddressConfig reads from   *)
(* ADDRESS_VALIDATION_ORDER: the names between the commas of the variable, *)
(* of which those of AddressProvider are kept.                             *)
(***************************************************************************)
\* the names in the variable: the providers, and a name that is none
OrderNames == AddressProvider \cup {"other"}

RECURSIVE SeqsUpTo(_, _)
SeqsUpTo(S, n) ==
  IF n = 0 THEN {<<>>}
  ELSE LET shorter == SeqsUpTo(S, n - 1) IN
       shorter \cup {Append(q, x) : q \in shorter, x \in S}

\* getAddressConfig, lines 59-63; names = <<>> is the variable not set
configuredOrder(names) ==
  IF names # <<>>
  THEN SelectSeq(names, LAMBDA provider : provider \in AddressProvider)
  ELSE configOrder

\* the configuration is read, at startup
GetAddressConfig(names) ==
  /\ ordering.pc = "idle"
  /\ ordering' = [ordering EXCEPT !.order = configuredOrder(names), !.pc = "configured"]
  /\ UNCHANGED <<orchestratorVars, canon, adapter>>

GetProviderOrder(preferredProvider) ==
  /\ ordering.pc = "configured"
  /\ ordering' = [ordering EXCEPT !.preferred = preferredProvider,
                                  !.result = ProviderOrder(ordering.order, preferredProvider),
                                  !.pc = "ordered"]
  /\ UNCHANGED <<orchestratorVars, canon, adapter>>

OrderInit ==
  /\ Constructed(Detached)
  /\ canon = NoCanon
  /\ adapter = NoAdapter
  /\ ordering = NoOrdering

OrderNext ==
  \/ \E names \in SeqsUpTo(OrderNames, MaxOrderLen) : GetAddressConfig(names)
  \/ \E preferredProvider \in AddressProvider \cup {"none"} :
       GetProviderOrder(preferredProvider)

OrderSpec == OrderInit /\ [][OrderNext]_vars

(***************************************************************************)
(* AddressCache on its own: set, get, getOrExecute and cleanup called in   *)
(* any order while time passes, on a cache constructed with a capacity of  *)
(* one entry or of two.  last.via names the method called.                 *)
(***************************************************************************)
CacheSizes == {1, 2}

\* set(input, result, ttl)
Set(input, kind, ttl) ==
  LET key == canonicalizeAddress(input) IN
  /\ cache' = CacheSet(cache, key, AdapterResult("smarty", kind, key, 0), ttl)
  /\ last' = [NoLast EXCEPT !.via = "set"]
  /\ UNCHANGED <<env, enabled, maxSize, circuitBreakers, inFlightRequests, reqs,
                 runs, calls>>

\* get(input)
Get(input) ==
  LET key == canonicalizeAddress(input) IN
  /\ cache' = CacheAfterGet(cache, key)
  /\ last' = [NoLast EXCEPT !.via = "get"]
  /\ UNCHANGED <<env, enabled, maxSize, circuitBreakers, inFlightRequests, reqs,
                 runs, calls>>

\* getOrExecute(input, executor, positiveTtl, negativeTtl) by caller s, up
\* to the point where it returns: a hit, the promise in flight, or a new
\* promise of the executor, which is entered in the in-flight table
GetOrExecute(s, input) ==
  LET key == canonicalizeAddress(input)
      base == [NoLast EXCEPT !.key = key]
  IN
  /\ SlotFree(s)
  /\ cache' = CacheAfterGet(cache, key)
  /\ IF CacheHit(cache, key)
     THEN /\ last' = [base EXCEPT !.via = "cache",
                        !.delivered = Delivered({s}, CachedCopy(CacheEntry(cache, key)))]
          /\ UNCHANGED <<inFlightRequests, reqs, runs>>
     ELSE IF InFlightGet(inFlightRequests, key) # 0
     THEN /\ reqs' = [reqs EXCEPT ![s] = [pc |-> "waiting",
                                          run |-> InFlightGet(inFlightRequests, key)]]
          /\ last' = [base EXCEPT !.via = "inflight"]
          /\ UNCHANGED <<inFlightRequests, runs>>
     ELSE /\ inFlightRequests' = [inFlightRequests EXCEPT ![key] = s]
          /\ runs' = [runs EXCEPT ![s] = [NoRun EXCEPT !.status = "running", !.key = key]]
          /\ reqs' = [reqs EXCEPT ![s] = [pc |-> "waiting", run |-> s]]
          /\ last' = [base EXCEPT !.via = "executor"]
  /\ UNCHANGED <<env, enabled, maxSize, circuitBreakers, calls>>

\* getOrExecute, lines 391-399: the executor's promise of run s resolves
ExecutorResolves(s, kind) ==
  LET key == runs[s].key
      result == AdapterResult("smarty", kind, key, 0)
  IN
  /\ Running(s)
  /\ inFlightRequests' = [inFlightRequests EXCEPT ![key] = 0]
  /\ cache' = SettledCache(cache, key, result)
  /\ runs' = [runs EXCEPT ![s] = NoRun]
  /\ reqs' = [r \in Slots |-> IF r \in Waiters(s) THEN Idle ELSE reqs[r]]
  /\ last' = [NoLast EXCEPT !.key = key, !.via = "resolved",
                            !.delivered = Delivered(Waiters(s), result)]
  /\ UNCHANGED <<env, enabled, maxSize, circuitBreakers, calls>>

\* (mutant) the key stays in the table
InFlightAfterFailure_Kept(table, key) == table

\* getOrExecute, line 402
InFlightAfterFailure(table, key) == [table EXCEPT ![key] = 0]

\* what a caller gets from a promise that rejects
Failed(slots, message) == {[slot |-> r, error |-> message] : r \in slots}

\* getOrExecute, lines 400-404: the executor's promise of run s rejects
ExecutorRejects(s) ==
  LET key == runs[s].key IN
  /\ Running(s)
  /\ inFlightRequests' = InFlightAfterFailure(inFlightRequests, key)
  /\ runs' = [runs EXCEPT ![s] = NoRun]
  /\ reqs' = [r \in Slots |-> IF r \in Waiters(s) THEN Idle ELSE reqs[r]]
  /\ last' = [NoLast EXCEPT !.key = key, !.via = "rejected",
                            !.delivered = Failed(Waiters(s), <<"executor failed">>)]
  /\ UNCHANGED <<env, enabled, maxSize, circuitBreakers, cache, calls>>

CacheInit ==
  /\ \E n \in CacheSizes : Constructed([Detached EXCEPT !.maxSize = n])
  /\ canon = NoCanon
  /\ adapter = NoAdapter
  /\ ordering = NoOrdering

CacheNext ==
  \/ /\ \E input \in CacheInputs, ttl \in {cacheTtlMs, negativeCacheTtlMs} :
          Set(input, "valid", ttl)
     /\ UNCHANGED <<canon, adapter, ordering>>
  \/ /\ \E input \in CacheInputs : Get(input)
     /\ UNCHANGED <<canon, adapter, ordering>>
  \/ /\ \E s \in Slots, input \in CacheInputs : GetOrExecute(s, input)
     /\ UNCHANGED <<canon, adapter, ordering>>
  \/ /\ \E s \in Slots, kind \in {"valid", "invalid"} : ExecutorResolves(s, kind)
     /\ UNCHANGED <<canon, adapter, ordering>>
  \/ /\ \E s \in Slots : ExecutorRejects(s)
     /\ UNCHANGED <<canon, adapter, ordering>>
  \/ Cleanup /\ UNCHANGED <<canon, adapter, ordering>>
  \/ Tick /\ UNCHANGED <<canon, adapter, ordering>>

CacheSpec == CacheInit /\ [][CacheNext]_vars

(***************************************************************************)
(* Properties.                                                             *)
(***************************************************************************)
\* the providers a message names
Named(message) == {message[i] : i \in 1..Len(message)} \cap AddressProvider

\* C1: at most one executor run is outstanding per canonical key: the runs
\* in progress have different keys, the in-flight table holds exactly the
\* keys of the runs in progress, each with its run, and every caller that
\* waits, waits for the run in progress of its key (a call that finds its
\* key in flight starts no executor and joins that run).
C1_OneRunPerKey ==
  /\ \A s1, s2 \in Slots :
       Running(s1) /\ Running(s2) /\ runs[s1].key = runs[s2].key => s1 = s2
  /\ \A k \in Keys :
       /\ inFlightRequests[k] # 0 =>
            Running(inFlightRequests[k]) /\ runs[inFlightRequests[k]].key = k
       /\ \A s \in Slots : Running(s) /\ runs[s].key = k => inFlightRequests[k] = s
  /\ \A r \in Slots :
       reqs[r].pc = "waiting" =>
         /\ Running(reqs[r].run)
         /\ inFlightRequests[runs[reqs[r].run].key] = reqs[r].run
  /\ last.via = "inflight" =>
       \E r \in Slots : reqs[r].pc = "waiting" /\ reqs[r].run # r
                        /\ runs[reqs[r].run].key = last.key
  /\ \A d \in last.delivered : reqs[d.slot].pc = "idle"

\* two callers wait for the same run
C1_Witness ==
  \E r1, r2 \in Slots :
    /\ r1 # r2
    /\ reqs[r1].pc = "waiting" /\ reqs[r2].pc = "waiting"
    /\ reqs[r1].run = reqs[r2].run

\* C2: a call that finds an entry for its key whose age does not exceed its
\* TTL is answered from the cache, with a copy of the stored result whose
\* latencyMs is 0; such a call invokes no executor and no provider and
\* changes no breaker (nor the cache, the in-flight table, any run or call).
C2_CacheHit ==
  [][LET e == CacheEntry(cache, last'.key) IN
     /\ ( /\ last'.via # "none"
          /\ CacheIndex(cache, last'.key) # 0
          /\ e.age <= e.ttl ) => last'.via = "cache"
     /\ last'.via = "cache" =>
          /\ CacheIndex(cache, last'.key) # 0
          /\ e.age <= e.ttl
          /\ Cardinality(last'.delivered) = 1
          /\ \A d \in last'.delivered :
               /\ d.result.latencyMs = 0
               /\ DOMAIN d.result = DOMAIN e.result
               /\ \A f \in DOMAIN e.result \ {"latencyMs"} : d.result[f] = e.result[f]
          /\ last'.events = {}
          /\ UNCHANGED <<circuitBreakers, cache, inFlightRequests, reqs, runs, calls>>
    ]_vars

\* a call has been answered from the cache, and the stored result carries the
\* latency of the provider call it came from
C2_Witness ==
  /\ last.via = "cache"
  /\ last.delivered # {}
  /\ CacheIndex(cache, last.key) # 0
  /\ CacheEntry(cache, last.key).result.latencyMs > 0

\* C3: every call of validateAddress resolves.  A caller resolves when the
\* run it waits for settles, and a run settles only in the task of one of
\* its guarded calls or timers; so a caller that waits must have a guarded
\* call of its run pending (delayed or calling).  A waiting caller whose run
\* has none left stays pending forever.
C3_EveryCallResolves ==
  \A r \in Slots :
    reqs[r].pc = "waiting" =>
      \E p \in AddressProvider : calls[reqs[r].run][p].phase \in {"delayed", "calling"}

\* C4: in waterfall mode, when the guarded call of a run resolves with a
\* confident rejection (isValid false, serviceUnavailable not set), the run
\* ends in that task with that result, and no other provider is tried: the
\* task holds no other breaker or provider event and the run keeps no call.
C4_ConfidentRejectionEndsRun ==
  [][\A s \in Slots : \A e \in last'.events :
       ( /\ Running(s) /\ runs[s].mode = "waterfall"
         /\ e.ev = "invalid"
         /\ calls[s][e.provider].phase = "calling"
         /\ calls'[s][e.provider].phase = "none" )
       =>
       /\ runs'[s].status = "none"
       /\ \A p \in AddressProvider : calls'[s][p].phase = "none"
       /\ last'.events = {e}
       /\ last'.delivered # {}
       /\ \A d \in last'.delivered :
            /\ ~d.result.isValid
            /\ ~Truthy(d.result, "serviceUnavailable")
            /\ d.result.provider = e.provider
    ]_vars

\* the first provider has rejected the address, with the two others enabled
C4_Witness ==
  /\ enabled = AddressProvider
  /\ last.mode = "waterfall"
  /\ last.events = {Event("smarty", "invalid", FALSE)}
  /\ last.delivered # {}

\* C5: in waterfall mode, a valid result returned after another provider
\* was tried first carries the answering provider's identity and data
\* (the standardized address, the latency of that call) and didFallback =
\* true.
C5_FallbackResult ==
  [][\A s \in Slots : \A e \in last'.events :
       ( /\ Running(s) /\ runs[s].mode = "waterfall"
         /\ e.ev = "valid"
         /\ calls[s][e.provider].phase = "calling"
         /\ calls'[s][e.provider].phase = "none"
         /\ Len(runs[s].triedProviders) > 1 )
       =>
       /\ runs[s].triedProviders[Len(runs[s].triedProviders)] = e.provider
       /\ last'.delivered # {}
       /\ \A d \in last'.delivered :
            /\ d.result.isValid
            /\ d.result.provider = e.provider
            /\ d.result.standardizedAddress = runs[s].key
            /\ d.result.latencyMs = calls[s][e.provider].elapsed
            /\ Has(d.result, "didFallback")
            /\ d.result.didFallback = TRUE
    ]_vars

\* with providers that answer in time, the second provider's valid answer is
\* returned with didFallback set: the first one answered service-unavailable
C5_Witness ==
  /\ env.outcomes = ResultKinds
  /\ enabled = AddressProvider
  /\ last.mode = "waterfall"
  /\ last.events = {Event("google", "valid", FALSE)}
  /\ \E d \in last.delivered :
       /\ d.result.provider = "google"
       /\ d.result.isValid
       /\ Truthy(d.result, "didFallback")

\* the providers a run has attempted when it ends in the task that holds
\* the events evs: those tried before and those whose breaker rejected the
\* call in that task
Attempted(triedProviders, evs) ==
  {triedProviders[i] : i \in 1..Len(triedProviders)}
    \cup {e.provider : e \in {x \in evs : x.ev = "reject"}}

IsExhaustedResult(result, attempted) ==
  /\ ~result.isValid
  /\ Truthy(result, "serviceUnavailable")
  /\ Truthy(result, "didFallback")
  /\ Len(result.errors) = 1
  /\ Named(result.errors[1]) = attempted

\* C6: in waterfall mode, a run that ends without a valid result and without
\* a confident rejection (every provider tried was unavailable, timed out or
\* was rejected by its open breaker) returns one result with isValid false,
\* serviceUnavailable true, didFallback true and one error message, which
\* names exactly the providers that were attempted.
C6_Exhausted ==
  [][/\ \A s \in Slots :
          ( /\ Running(s) /\ runs[s].mode = "waterfall"
            /\ runs'[s].status = "none"
            /\ \A e \in last'.events : e.ev \notin {"valid", "invalid"} )
          =>
          /\ last'.delivered # {}
          /\ \A d \in last'.delivered :
               IsExhaustedResult(d.result,
                                 Attempted(runs[s].triedProviders, last'.events))
     /\ ( /\ last'.via = "executor" /\ last'.mode = "waterfall"
          /\ last'.delivered # {} )
        =>
        \A d \in last'.delivered :
          IsExhaustedResult(d.result, Attempted(<<>>, last'.events))
    ]_vars

\* a run has ended with every one of the three providers attempted
C6_Witness ==
  /\ last.mode = "waterfall"
  /\ \E d \in last.delivered :
       IsExhaustedResult(d.result, AddressProvider)

\* C7: a breaker that has counted failureThreshold failures in a row (no
\* success in between resets the counter) and whose last failure is less
\* than resetTimeoutMs old lets no call through: every attempt on it is
\* rejected by the breaker, and no slot starts the wrapped operation on
\* its provider.
C7_OpenBreakerRejects ==
  [][\A p \in AddressProvider :
       ( /\ circuitBreakers[p].failures >= failureThreshold
         /\ circuitBreakers[p].sinceLastFailure < resetTimeoutMs )
       =>
       /\ \A e \in last'.events : e.provider = p => e.ev # "admit"
       /\ \A s \in Slots :
            calls'[s][p].phase = "calling" => calls[s][p].phase = "calling"
    ]_vars

\* a call has just been rejected by a breaker that is at its threshold and
\* whose last failure is younger than the reset timeout
C7_Witness ==
  \E e \in last.events :
    /\ e.ev = "reject"
    /\ circuitBreakers[e.provider].failures >= failureThreshold
    /\ circuitBreakers[e.provider].sinceLastFailure < resetTimeoutMs

\* C8: at most one call let through by a half-open breaker (a probe) is
\* outstanding on that breaker at any time.
C8_SingleProbe ==
  \A p \in AddressProvider :
    Cardinality({s \in Slots : calls[s][p].phase = "calling" /\ calls[s][p].probe}) <= 1

\* C9: when a probe (a call let through by the half-open breaker) resolves,
\* the breaker is closed and its failure counter is zero; and a failure on
\* a closed breaker whose counter is zero leaves it closed, with one
\* failure counted (failureThreshold > 1).
C9_ProbeSuccessCloses ==
  [][\A p \in AddressProvider :
       /\ \A s \in Slots :
            ( /\ circuitBreakers[p].state = "half-open"
              /\ calls[s][p].phase = "calling" /\ calls[s][p].probe
              /\ calls'[s][p].phase = "none"
              /\ \E e \in last'.events : e.provider = p /\ e.ev \in ResultKinds )
            =>
            /\ circuitBreakers'[p].state = "closed"
            /\ circuitBreakers'[p].failures = 0
       /\ ( /\ circuitBreakers[p].state = "closed"
            /\ circuitBreakers[p].failures = 0
            /\ failureThreshold > 1
            /\ \E e \in last'.events : e.provider = p /\ e.ev = "timeout" )
          =>
          /\ circuitBreakers'[p].state = "closed"
          /\ circuitBreakers'[p].failures = 1
    ]_vars

\* a probe has just resolved and its breaker is closed with no failure
C9_Witness ==
  \E e \in last.events :
    /\ e.probe /\ e.ev \in ResultKinds
    /\ circuitBreakers[e.provider].state = "closed"
    /\ circuitBreakers[e.provider].failures = 0

\* C10: every stored entry carries cacheTtlMs when its result is valid and
\* negativeCacheTtlMs otherwise; and a call for a key whose stored entry is
\* older than negativeCacheTtlMs but not older than cacheTtlMs is answered
\* from the cache when the stored result is valid, and runs the executor
\* again when it is not.
C10_TtlByValidity ==
  [][/\ \A i \in 1..Len(cache') :
          cache'[i].ttl = IF cache'[i].result.isValid THEN cacheTtlMs
                          ELSE negativeCacheTtlMs
     /\ LET e == CacheEntry(cache, last'.key) IN
        ( /\ last'.via # "none"
          /\ CacheIndex(cache, last'.key) # 0
          /\ e.age > negativeCacheTtlMs /\ e.age <= cacheTtlMs )
        =>
        /\ e.result.isValid => last'.via = "cache"
        /\ ~e.result.isValid => last'.via = "executor"
    ]_vars

\* a valid result older than negativeCacheTtlMs has answered a call
C10_Witness ==
  /\ last.via = "cache"
  /\ CacheIndex(cache, last.key) # 0
  /\ CacheEntry(cache, last.key).result.isValid
  /\ CacheEntry(cache, last.key).age > negativeCacheTtlMs

\* C11: every way of writing an address that differs from its first form
\* only in the letter case of the street line, secondary line, city and
\* state, in whitespace before and after the street line, secondary line
\* and city, and in the length of their whitespace runs, has the key of the
\* first form; and so has the canonical form of each of them.
C11_SameKey ==
  /\ canonicalizeAddress(canon.input) = canon.key
  /\ canonicalizeAddress(CanonicalForm(canon.input)) = canon.key

\* an input written with other letter case, padded and with a longer
\* whitespace run than the form its key was computed from
C11_Witness ==
  /\ canon.edits = MaxEdits
  /\ canon.input.streetAddress \in
       { <<" ", "1", " ", " ", "A">>, <<"b", "\t", "\t", "M", "\t">> }

\* C12: in waterfall mode, when every provider before B in the order is
\* disabled and B, the first enabled one, answers with a valid result, B is
\* the only provider counted as tried and the result returned is B's, valid,
\* with didFallback = false.
C12_DisabledNotTried ==
  [][\A s \in Slots : \A e \in last'.events :
       ( /\ Running(s) /\ runs[s].mode = "waterfall"
         /\ e.ev = "valid"
         /\ calls[s][e.provider].phase = "calling"
         /\ calls'[s][e.provider].phase = "none"
         /\ runs[s].order[runs[s].idx] = e.provider
         /\ \A j \in 1..(runs[s].idx - 1) : runs[s].order[j] \notin enabled )
       =>
       /\ runs[s].triedProviders = <<e.provider>>
       /\ last'.delivered # {}
       /\ \A d \in last'.delivered :
            /\ d.result.isValid
            /\ d.result.provider = e.provider
            /\ d.result.standardizedAddress = runs[s].key
            /\ Has(d.result, "didFallback")
            /\ d.result.didFallback = FALSE
    ]_vars

\* a waterfall run has passed over the disabled providers at the head of its
\* order and waits for the first enabled one, the only one it counts as tried
C12_Witness ==
  \E s \in Slots :
    /\ Running(s) /\ runs[s].mode = "waterfall"
    /\ runs[s].idx > 1
    /\ \A j \in 1..(runs[s].idx - 1) : runs[s].order[j] \notin enabled
    /\ calls[s][runs[s].order[runs[s].idx]].phase = "calling"
    /\ runs[s].triedProviders = <<runs[s].order[runs[s].idx]>>

\* an adapter's validate has settled
AdapterDone == adapter.pc = "done"

\* the answer to the lookup has status 200 and a body that was parsed
Answered ==
  /\ AdapterDone
  /\ adapter.response # NoResponse /\ adapter.response.net = "ok"
  /\ adapter.response.status = "200"
  /\ adapter.response.body.kind \in {"object", "array"}

\* the answer to the lookup has an error status
Refused ==
  /\ AdapterDone
  /\ adapter.response # NoResponse /\ adapter.response.net = "ok"
  /\ adapter.response.status # "200"

\* the status of the error in the body of a refusal by Google
ErrorStatus ==
  IF /\ Refused /\ adapter.provider = "google"
     /\ adapter.response.body.kind = "object"
     /\ adapter.response.body.error # Missing
  THEN adapter.response.body.error.status
  ELSE Undefined

\* C13: whatever the remote calls do (the network fails, the status is not
\* 200, the body is empty, cannot be parsed or lacks what is read from it,
\* the token request fails) and with or without credentials, validate of
\* each adapter resolves, with a NormalizedResult of that adapter.
C13_NeverRejects ==
  AdapterDone =>
    /\ adapter.outcome.settled = "resolved"
    /\ {"isValid", "provider", "latencyMs"} \subseteq DOMAIN adapter.outcome.result
    /\ adapter.outcome.result.isValid \in BOOLEAN
    /\ adapter.outcome.result.provider = adapter.provider

\* validate of Smarty has settled after the network failed
C13_Witness ==
  /\ AdapterDone
  /\ adapter.provider = "smarty"
  /\ adapter.response = NetworkFailure

\* C14: every result an adapter resolves with that has isValid = false has
\* serviceUnavailable = true or a non-empty errors list.
C14_RejectionsExplained ==
  ( /\ AdapterDone /\ adapter.outcome.settled = "resolved"
    /\ ~adapter.outcome.result.isValid )
  =>
  \/ Truthy(adapter.outcome.result, "serviceUnavailable")
  \/ /\ Has(adapter.outcome.result, "errors")
     /\ adapter.outcome.result.errors # <<>>

\* the remote service has refused the credentials: status 401 or 403 on the
\* lookup, the error status UNAUTHENTICATED, or a token request that failed
AuthFailure ==
  \/ Refused /\ adapter.response.status \in {"401", "403"}
  \/ ErrorStatus = "UNAUTHENTICATED"
  \/ AdapterDone /\ adapter.tokenResponse # NoResponse /\ adapter.response = NoResponse

\* C15: when the remote service refuses the credentials, the adapter's
\* result has serviceUnavailable = true.
C15_AuthFailureUnavailable ==
  AuthFailure =>
    /\ adapter.outcome.settled = "resolved"
    /\ Truthy(adapter.outcome.result, "serviceUnavailable")

\* the remote service signals a rate limit or an exhausted quota
RateLimited ==
  \/ Refused /\ adapter.response.status = "429"
  \/ ErrorStatus = "QUOTA_EXCEEDED"

\* C16: when the remote service signals a rate limit or an exhausted quota,
\* the adapter's result has serviceUnavailable = true, whatever the message
\* of the error.
C16_RateLimitUnavailable ==
  RateLimited =>
    /\ adapter.outcome.settled = "resolved"
    /\ Truthy(adapter.outcome.result, "serviceUnavailable")

\* the answer flags the address as vacant
FlagsVacant ==
  /\ Answered
  /\ CASE adapter.provider = "smarty" ->
            /\ adapter.response.body.kind = "array"
            /\ adapter.response.body.items # <<>>
            /\ adapter.response.body.items[1].analysis # Missing
            /\ adapter.response.body.items[1].analysis.dpv_vacancy = "Y"
       [] adapter.provider = "google" ->
            /\ adapter.response.body.result # Missing
            /\ adapter.response.body.result.uspsData # Missing
            /\ adapter.response.body.result.uspsData.vacant = "Y"
       [] OTHER ->
            /\ adapter.response.body.additionalInfo # Missing
            /\ adapter.response.body.additionalInfo.vacant = "Y"

\* C19: a result made from an answer that flags the address as vacant has
\* isValid = false, whatever the delivery-point confirmation says.
C19_VacantInvalid ==
  FlagsVacant =>
    /\ adapter.outcome.settled = "resolved"
    /\ ~adapter.outcome.result.isValid

\* Smarty has confirmed the delivery point of an address it flags as vacant
C19_Witness ==
  /\ FlagsVacant
  /\ adapter.provider = "smarty"
  /\ adapter.response.body.items[1].components # Missing
  /\ adapter.response.body.items[1].analysis.dpv_match_code = "Y"

\* C20: every result an adapter resolves with that carries a
\* standardizedAddress has isValid = true.
C20_StandardizedOnlyIfValid ==
  ( /\ AdapterDone /\ adapter.outcome.settled = "resolved"
    /\ Has(adapter.outcome.result, "standardizedAddress") )
  => adapter.outcome.result.isValid

\* C17: in hedged mode the answer of a provider that is transiently
\* unavailable does not settle the run: the task in which a guarded call
\* resolves with a service-unavailable result hands no result to a caller.
C17_UnavailableNeverWins ==
  ( /\ last.mode = "hedged"
    /\ \E e \in last.events : e.ev = "unavailable" )
  => last.delivered = {}

\* C18: no guarded call is started, delayed or rejected for a provider whose
\* isEnabled() is false, in either mode and whatever provider is preferred;
\* and validate of an adapter without credentials, called by itself,
\* settles without having sent a request.
C18_DisabledNeverCalled ==
  /\ \A s \in Slots : \A p \in AddressProvider :
       calls[s][p].phase # "none" => p \in enabled
  /\ \A e \in last.events : e.provider \in enabled
  /\ ( adapter.pc # "idle" /\ adapter.provider \notin enabled )
     => adapter.pc = "done" /\ adapter.requests = 0

\* a hedged run is under way that has left a disabled provider out
C18_Witness ==
  \E s \in Slots :
    /\ Running(s) /\ runs[s].mode = "hedged"
    /\ enabled # AddressProvider
    /\ \E p \in enabled : calls[s][p].phase = "calling"
    /\ \A p \in AddressProvider \ enabled : calls[s][p].phase = "none"

\* the 4-digit extensions the remote services answer with
Extensions == {"2084"}

\* C21: in every standardizedAddress an adapter resolves with, ZIPPlus4 is
\* absent or is the 4-digit extension alone.
C21_ZipPlus4IsExtension ==
  ( /\ AdapterDone /\ adapter.outcome.settled = "resolved"
    /\ Has(adapter.outcome.result, "standardizedAddress")
    /\ Has(adapter.outcome.result.standardizedAddress, "ZIPPlus4") )
  => \E x \in Extensions :
       adapter.outcome.result.standardizedAddress.ZIPPlus4 = <<x>>

\* C22: whenever an adapter's result carries a confidence score, the score is
\* an integer from 0 to 100, whatever the signals of the answer.
C22_ConfidenceInRange ==
  ( /\ AdapterDone /\ adapter.outcome.settled = "resolved"
    /\ Has(adapter.outcome.result, "confidence") )
  => adapter.outcome.result.confidence \in 0..100

\* Smarty's answer carries every signal the score is computed from
C22_Witness ==
  /\ Answered
  /\ adapter.provider = "smarty"
  /\ Has(adapter.outcome.result, "confidence")
  /\ adapter.outcome.result.confidence = 100

\* C23: when the timer of executeWithTimeout fires on a guarded call, the
\* provider's breaker counts one failure more and takes the time of the
\* failure; in waterfall mode the run then holds the provider's timeout
\* error and goes on behind that provider, to a later provider's call or to
\* the result of an exhausted order that names the provider, and it returns
\* no result of that provider.  When provider.validate settles after the
\* timeout, the breakers, the cache, the in-flight table, the runs and the
\* callers stay as they are and no result is handed out.
C23_TimeoutIsFailure ==
  [][\A s \in Slots : \A p \in AddressProvider :
       /\ ( /\ calls[s][p].phase = "calling"
            /\ calls'[s][p].phase = "late" )
          =>
          /\ circuitBreakers'[p].failures = circuitBreakers[p].failures + 1
          /\ circuitBreakers'[p].sinceLastFailure = 0
          /\ Event(p, "timeout", calls[s][p].probe) \in last'.events
          /\ ( Running(s) /\ runs[s].mode = "waterfall" ) =>
               \/ /\ Running(s)'
                  /\ runs'[s].idx > runs[s].idx
                  /\ runs'[s].errors[Len(runs[s].errors) + 1] = TimeoutError(p)
                  /\ calls'[s][runs'[s].order[runs'[s].idx]].phase = "calling"
                  /\ last'.delivered = {}
               \/ /\ ~Running(s)'
                  /\ \A j \in (runs[s].idx + 1)..Len(runs[s].order) :
                       \/ runs[s].order[j] \notin enabled
                       \/ Event(runs[s].order[j], "reject", FALSE) \in last'.events
                  /\ last'.delivered # {}
                  /\ \A d \in last'.delivered :
                       /\ IsExhaustedResult(d.result,
                            Attempted(runs[s].triedProviders, last'.events))
                       /\ p \in Named(d.result.errors[1])
       /\ ( /\ calls[s][p].phase = "late"
            /\ calls'[s][p].phase = "none" )
          =>
          /\ UNCHANGED <<circuitBreakers, cache, inFlightRequests, reqs, runs>>
          /\ last'.delivered = {}
    ]_vars

\* the answer of a provider has come after its call timed out in a waterfall
\* run that has gone on to the next provider
C23_Witness ==
  \E s \in Slots :
    /\ Running(s) /\ runs[s].mode = "waterfall"
    /\ runs[s].idx > 1
    /\ last.events = {Event(runs[s].order[1], "late", FALSE)}
    /\ circuitBreakers[runs[s].order[1]].failures = 1
    /\ calls[s][runs[s].order[runs[s].idx]].phase = "calling"

\* the providers whose guarded call of run s is outstanding
Outstanding(s) == {p \in AddressProvider : calls[s][p].phase = "calling"}

\* C24: a waterfall run that has not returned has exactly one guarded call
\* outstanding, that of the provider at its position, and no call waiting to
\* start; its position only moves forward, and when it moves the guarded call
\* of the provider at the position it leaves has settled (resolved, or
\* rejected by the timer).
C24_WaterfallSequential ==
  [][\A s \in Slots :
       ( Running(s)' /\ runs'[s].mode = "waterfall" )
       =>
       /\ Outstanding(s)' = {runs'[s].order[runs'[s].idx]}
       /\ \A p \in AddressProvider : calls'[s][p].phase # "delayed"
       /\ Running(s) =>
            /\ runs'[s].idx >= runs[s].idx
            /\ runs'[s].idx > runs[s].idx =>
                 /\ Outstanding(s) = {runs[s].order[runs[s].idx]}
                 /\ calls'[s][runs[s].order[runs[s].idx]].phase \in {"none", "late"}
                 /\ \E e \in last'.events :
                      /\ e.provider = runs[s].order[runs[s].idx]
                      /\ e.ev \in {"unavailable", "timeout"}
    ]_vars

\* a waterfall run waits for its third provider, after the first answered
\* service-unavailable and the second timed out and has not answered yet
C24_Witness ==
  \E s \in Slots :
    /\ Running(s) /\ runs[s].mode = "waterfall"
    /\ runs[s].idx = 3
    /\ Len(runs[s].triedProviders) = 3
    /\ calls[s][runs[s].order[1]].phase = "none"
    /\ calls[s][runs[s].order[2]].phase = "late"
    /\ Outstanding(s) = {runs[s].order[3]}

\* C25: when a call let through by the half-open breaker (a probe) fails,
\* the breaker is open after the failure and the time of its last failure
\* is the time of that failure, so that it lets no call through before the
\* reset timeout has elapsed again.
C25_ProbeFailureReopens ==
  [][\A e \in last'.events :
       ( e.ev = "timeout" /\ e.probe )
       =>
       /\ circuitBreakers'[e.provider].state = "open"
       /\ circuitBreakers'[e.provider].sinceLastFailure = 0
       /\ ~BreakerAdmits(circuitBreakers'[e.provider])
    ]_vars

\* the position of provider p in order, or 0
PositionOf(order, p) ==
  IF \E i \in 1..Len(order) : order[i] = p
  THEN CHOOSE i \in 1..Len(order) : order[i] = p
  ELSE 0

\* C26: a call that the open breaker rejects leaves that breaker as it was
\* (state, failure counter, time since the last failure).  In waterfall mode
\* the provider is counted as tried, an error that names it is recorded, and
\* the loop goes on in the same task: every enabled provider behind it, up to
\* the one whose call is let through, is attempted, and when none is let
\* through the run ends with the result of an exhausted order, whose message
\* names the provider.
C26_RejectionLeavesBreaker ==
  [][\A e \in last'.events :
       e.ev = "reject" =>
         /\ circuitBreakers'[e.provider] = circuitBreakers[e.provider]
         /\ circuitBreakers[e.provider].state = "open"
         /\ last'.mode = "waterfall" =>
              \/ \E s \in Slots :
                   /\ runs'[s] # runs[s]
                   /\ Running(s)' /\ runs'[s].mode = "waterfall"
                   /\ \E i \in 1..Len(runs'[s].errors) :
                        /\ e.provider \in Named(runs'[s].errors[i])
                        /\ Includes(runs'[s].errors[i], "Circuit breaker is open")
                   /\ \E i \in 1..Len(runs'[s].triedProviders) :
                        runs'[s].triedProviders[i] = e.provider
                   /\ PositionOf(runs'[s].order, e.provider) \in 1..(runs'[s].idx - 1)
                   /\ \A j \in (PositionOf(runs'[s].order, e.provider) + 1)..runs'[s].idx :
                        \/ runs'[s].order[j] \notin enabled
                        \/ \E x \in last'.events :
                             /\ x.provider = runs'[s].order[j]
                             /\ x.ev = IF j = runs'[s].idx THEN "admit" ELSE "reject"
                   /\ calls'[s][runs'[s].order[runs'[s].idx]].phase = "calling"
              \/ /\ \A s \in Slots : ~(Running(s)' /\ runs'[s] # runs[s])
                 /\ \A x \in last'.events : x.ev # "admit"
                 /\ last'.delivered # {}
                 /\ \A d \in last'.delivered :
                      /\ ~d.result.isValid
                      /\ Truthy(d.result, "serviceUnavailable")
                      /\ Len(d.result.errors) = 1
                      /\ e.provider \in Named(d.result.errors[1])
    ]_vars

\* the open breaker of the first provider has rejected a call of a waterfall
\* run, which has gone on to the second provider in the same task
C26_Witness ==
  \E s \in Slots :
    /\ Running(s) /\ runs[s].mode = "waterfall"
    /\ runs[s].idx = 2
    /\ last.events = {Event(runs[s].order[1], "reject", FALSE),
                      Event(runs[s].order[2], "admit", FALSE)}
    /\ circuitBreakers[runs[s].order[1]].state = "open"
    /\ circuitBreakers[runs[s].order[1]].sinceLastFailure < resetTimeoutMs
    /\ runs[s].errors = <<BreakerOpenError(runs[s].order[1])>>

\* the events of a task that stand for the outcome of a guarded call of
\* provider q, or for its admission by a breaker that was not closed
Touches(e, q) ==
  /\ e.provider = q
  /\ \/ e.ev \in ResultKinds \cup {"timeout"}
     \/ e.ev = "admit" /\ e.probe

\* C27: in every task, with any number of requests under way, the breaker of
\* a provider keeps its state and its failure counter unless a guarded call
\* of that very provider settles or is let through as a probe in the task,
\* and keeps the time of its last failure unless a guarded call of that very
\* provider fails in the task; the outcomes of the calls of other providers
\* leave it as it is.
C27_BreakersIndependent ==
  [][\A q \in AddressProvider :
       /\ ( \A e \in last'.events : ~Touches(e, q) )
          =>
          /\ circuitBreakers'[q].state = circuitBreakers[q].state
          /\ circuitBreakers'[q].failures = circuitBreakers[q].failures
       /\ ( \A e \in last'.events : ~(e.provider = q /\ e.ev = "timeout") )
          =>
          \/ circuitBreakers'[q].sinceLastFailure = circuitBreakers[q].sinceLastFailure
          \/ /\ last'.events = {}
             /\ \A p \in AddressProvider :
                  circuitBreakers'[p].sinceLastFailure =
                    Min(circuitBreakers[p].sinceLastFailure + 1, resetTimeoutMs)
    ]_vars

\* while a call of google is outstanding for one caller, the call of smarty
\* for the other caller has failed and opened smarty's breaker; google's
\* breaker is as constructed
C27_Witness ==
  \E s1, s2 \in Slots :
    /\ s1 # s2
    /\ Running(s1) /\ Running(s2)
    /\ calls[s1]["google"].phase = "calling"
    /\ Event("smarty", "timeout", FALSE) \in last.events
    /\ calls[s2]["smarty"].phase = "late"
    /\ circuitBreakers["smarty"].state = "open"
    /\ circuitBreakers["google"] = NewCircuitBreaker

\* how many times provider p stands in order
Occurrences(order, p) == Cardinality({i \in 1..Len(order) : order[i] = p})

\* C28: getProviderOrder returns the configured order when no provider is
\* preferred; when provider P is preferred it returns P first, followed by
\* the other configured providers in their configured order; and the list it
\* returns holds every provider as many times as the configured order does.
C28_ProviderOrder ==
  ordering.pc = "ordered" =>
    /\ ordering.preferred = "none" => ordering.result = ordering.order
    /\ ordering.preferred # "none" =>
         /\ ordering.result # <<>>
         /\ ordering.result[1] = ordering.preferred
         /\ Tail(ordering.result) =
              SelectSeq(ordering.order, LAMBDA p : p # ordering.preferred)
    /\ \A p \in AddressProvider :
         Occurrences(ordering.result, p) = Occurrences(ordering.order, p)

\* C29: when a hedged run begins, each enabled provider, and no other, gets
\* one call to be started, that of the provider at position i (from 0) with
\* i times the hedge delay to wait.  The time a call has to wait only goes
\* down as time passes, and the call is started (let through or rejected by
\* its breaker) when none is left and not before, so that the calls start in
\* provider order.  No other call is started for the run, and a call that
\* waits or is outstanding stays so until it is started or settles, whether
\* or not the run has returned a result.
C29_HedgedStagger ==
  [][\A s \in Slots :
       /\ ( ~Running(s) /\ Running(s)' /\ runs'[s].mode = "hedged" )
          =>
          LET order == runs'[s].order IN
          /\ {order[i] : i \in 1..Len(order)} = enabled
          /\ Len(order) = Cardinality(enabled)
          /\ \A i \in 1..Len(order) :
               /\ calls'[s][order[i]].phase = "delayed"
               /\ calls'[s][order[i]].delay = (i - 1) * hedgeDelayMs
          /\ \A p \in AddressProvider \ enabled : calls'[s][p].phase = "none"
       /\ \A p \in AddressProvider :
            /\ calls[s][p].phase = "delayed" =>
                 \/ calls'[s][p] = calls[s][p]
                 \/ /\ calls[s][p].delay > 0
                    /\ calls'[s][p] = [calls[s][p] EXCEPT !.delay = @ - 1]
                    /\ last' = NoLast
                 \/ /\ calls[s][p].delay = 0
                    /\ \/ /\ Event(p, "admit", circuitBreakers[p].state # "closed")
                               \in last'.events
                          /\ calls'[s][p].phase = "calling"
                       \/ /\ Event(p, "reject", FALSE) \in last'.events
                          /\ calls'[s][p].phase = "none"
            /\ ( calls[s][p].phase # "delayed" /\ calls'[s][p].phase = "delayed" )
               => ( ~Running(s) /\ Running(s)' /\ calls[s][p].phase = "none" )
            /\ ( calls[s][p].phase = "none" /\ calls'[s][p].phase = "calling" )
               => last'.mode = "waterfall"
            /\ ( calls[s][p].phase = "calling" /\ calls'[s][p].phase # "calling" )
               => \E e \in last'.events :
                    e.provider = p /\ e.ev \in ResultKinds \cup {"timeout"}
       /\ ( Running(s)' /\ runs'[s].mode = "hedged" )
          =>
          \A i, j \in 1..Len(runs'[s].order) :
            ( i < j /\ calls'[s][runs'[s].order[i]].phase = "delayed" )
            =>
            /\ calls'[s][runs'[s].order[j]].phase = "delayed"
            /\ calls'[s][runs'[s].order[j]].delay - calls'[s][runs'[s].order[i]].delay
                 = (j - i) * hedgeDelayMs
    ]_vars

\* the call of the third provider has been started after the run returned
\* the result of an earlier provider
C29_Witness ==
  \E s \in Slots :
    /\ ~Running(s)
    /\ last.mode = "hedged"
    /\ last.events = {Event("usps", "admit", FALSE)}
    /\ calls[s]["usps"].phase = "calling"
    /\ calls[s]["smarty"].phase = "none"
    /\ calls[s]["google"].phase = "none"

\* C30: the cache never holds more than maxSize entries, whatever calls of
\* set, get, getOrExecute and cleanup have been made.
C30_CacheBounded == Len(cache) <= maxSize

\* C31: cleanup removes the entries whose age exceeds their TTL and no
\* other: the entries left are the unexpired ones, as they were and in their
\* order, whether or not a get has found them; the in-flight table, the
\* breakers, the runs and the calls stay as they are.
C31_CleanupExact ==
  [][last'.via = "cleanup" =>
       /\ cache' = SelectSeq(cache, LAMBDA e : e.age <= e.ttl)
       /\ \A i \in 1..Len(cache) :
            cache[i].age <= cache[i].ttl =>
              \E j \in 1..Len(cache') : cache'[j] = cache[i]
       /\ \A j \in 1..Len(cache') : cache'[j].age <= cache'[j].ttl
       /\ UNCHANGED <<inFlightRequests, circuitBreakers, reqs, runs, calls, maxSize>>
    ]_vars

\* cleanup has run on a cache of capacity two while a key is in flight, and
\* has left one entry, which has aged and has not expired
C31_Witness ==
  /\ last.via = "cleanup"
  /\ Len(cache) = 1
  /\ cache[1].age > 0
  /\ maxSize = 2
  /\ \E k \in Keys : inFlightRequests[k] # 0

\* C32: when the executor given to getOrExecute fails, the key leaves the
\* in-flight table, every caller waiting on the key gets the failure and
\* goes on, and the cache is left as it was: no entry is made or changed.
\* So the next getOrExecute for the key, unless the cache holds the key for
\* another reason, finds neither a hit nor a promise in flight and starts
\* the executor again.
C32_ExecutorFailure ==
  [][/\ last'.via = "rejected" =>
          LET key == last'.key
              owner == inFlightRequests[key]
          IN /\ owner # 0
             /\ inFlightRequests' = [inFlightRequests EXCEPT ![key] = 0]
             /\ cache' = cache
             /\ last'.delivered =
                  {[slot |-> r, error |-> <<"executor failed">>] :
                     r \in {w \in Slots : reqs[w].pc = "waiting" /\ reqs[w].run = owner}}
             /\ \A r \in Slots :
                  reqs[r].pc = "waiting" /\ reqs[r].run = owner => reqs'[r].pc = "idle"
             /\ runs'[owner].status = "none"
     /\ (/\ last.via = "rejected"
         /\ last'.via \in {"cache", "inflight", "executor"}
         /\ last'.key = last.key
         /\ ~CacheHit(cache, last.key))
        => last'.via = "executor" /\ inFlightRequests'[last.key] # 0]_vars

\* C32: an executor has failed with two callers waiting on its key, both
\* were given the failure, and the cache holds nothing for the key.
C32_Witness ==
  /\ last.via = "rejected"
  /\ Cardinality(last.delivered) = 2
  /\ inFlightRequests[last.key] = 0
  /\ ~CacheHit(cache, last.key)

(***************************************************************************)
(* Scheduling.  Timers are the event loop's: time passes, and a hedged     *)
(* call whose delay is over starts (setTimeout at 225).  A guarded call    *)
(* that was started settles: executeWithTimeout (248-262) rejects it when  *)
(* its timer fires unless the provider has answered before.  Nothing       *)
(* obliges a caller to call, nor a late provider to answer.                 *)
(***************************************************************************)
LiveSpec ==
  /\ Spec
  /\ WF_vars(Tick /\ UNCHANGED <<canon, adapter, ordering>>)
  /\ WF_vars(/\ \E s \in Slots, p \in AddressProvider :
                  \/ TimerFires(s, p)
                  \/ \E kind \in ResultKinds : ProviderResolves(s, p, kind)
             /\ UNCHANGED <<canon, adapter, ordering>>)
  /\ WF_vars(/\ \E s \in Slots, p \in AddressProvider : HedgeStart(s, p)
             /\ UNCHANGED <<canon, adapter, ordering>>)

\* C33: every entry put in the in-flight table is eventually removed: a key
\* that is in flight is later absent from the table.
C33_InFlightEventuallyRemoved ==
  \A k \in Keys : (inFlightRequests[k] # 0) ~> (inFlightRequests[k] = 0)

\* USPS's validate starts its work in this step (it has its credentials)
C34_Starts ==
  adapter.pc = "idle" /\ adapter'.pc \in {"token", "lookup"} /\ adapter'.provider = "usps"

\* C34: the token of the USPS adapter.  While a token is cached and the time
\* is before its cached expiry, validate sends no token request and sends
\* the lookup with that token; otherwise a token request goes before the
\* lookup.  The token answered is cached with an expiry of 90% of the stated
\* lifetime after it was received, and a token is only ever sent with a
\* lookup before its stated expiry.  When the token request fails the
\* result has serviceUnavailable = true and no lookup was sent.
C34_TokenStateMachine ==
  [][/\ C34_Starts =>
          IF adapter.token /\ adapter.tokenAge * 10 < adapter.tokenExpiry
          THEN /\ adapter'.pc = "lookup" /\ adapter'.requests = 1
               /\ adapter'.tokenResponse = NoResponse
               /\ adapter'.token
               /\ adapter'.tokenAge = adapter.tokenAge
               /\ adapter'.expiresIn = adapter.expiresIn
          ELSE adapter'.pc = "token" /\ adapter'.requests = 1
     /\ (adapter.pc = "token" /\ adapter'.pc = "lookup") =>
          /\ adapter'.token /\ adapter'.tokenAge = 0
          /\ adapter'.expiresIn = adapter'.tokenResponse.body.expires_in
          /\ adapter'.tokenExpiry * 10 = adapter'.expiresIn * 10 * 9
          /\ adapter'.requests = 2
     /\ (adapter.pc # "lookup" /\ adapter'.pc = "lookup" /\ adapter'.provider = "usps") =>
          adapter'.token /\ adapter'.tokenAge < adapter'.expiresIn
     /\ (adapter.pc = "token" /\ adapter'.pc = "done") =>
          /\ adapter'.outcome.settled = "resolved"
          /\ ~adapter'.outcome.result.isValid
          /\ Truthy(adapter'.outcome.result, "serviceUnavailable")
          /\ adapter'.requests = 1 /\ adapter'.response = NoResponse]_vars

\* C34: a call of validate is sending the lookup with a token that was
\* cached by an earlier call and is a second old, of a stated lifetime of
\* two seconds
C34_Witness ==
  /\ adapter.pc = "lookup" /\ adapter.provider = "usps"
  /\ adapter.tokenResponse = NoResponse
  /\ adapter.token /\ adapter.tokenAge = 1 /\ adapter.expiresIn = 2

\* C34: a call of validate asks for a token although one is cached, because
\* the cached expiry has passed
C34_WitnessRefresh ==
  /\ adapter.pc = "token" /\ adapter.token
  /\ adapter.tokenAge * 10 >= adapter.tokenExpiry

\* C35: in every reachable state, whatever the interleaving of the guarded
\* calls, a breaker is closed exactly when its failure counter is below the
\* threshold, and an open or half-open breaker has a counter of at least
\* the threshold.
C35_StateMatchesCount ==
  \A p \in AddressProvider :
    LET b == circuitBreakers[p] IN
    /\ b.state = "closed" <=> b.failures < failureThreshold
    /\ b.state \in {"open", "half-open"} => b.failures >= failureThreshold

\* C35: a breaker is open with more failures counted than the threshold,
\* and a guarded call of its provider is still outstanding
C35_Witness ==
  \E p \in AddressProvider :
    /\ circuitBreakers[p].state = "open"
    /\ circuitBreakers[p].failures > failureThreshold
    /\ \E s \in Slots : calls[s][p].phase = "calling"

\* C36: an open breaker leaves the open state only by becoming half-open,
\* in a task that admits a call of its provider once resetTimeoutMs has
\* passed since the last failure; no step takes a breaker from open to
\* closed.
C36_OpenLeavesByProbe ==
  [][\A p \in AddressProvider :
       (circuitBreakers[p].state = "open" /\ circuitBreakers'[p].state # "open") =>
         /\ circuitBreakers'[p].state = "half-open"
         /\ circuitBreakers[p].sinceLastFailure >= resetTimeoutMs
         /\ \E e \in last'.events : e.provider = p /\ e.ev = "admit"]_vars

\* C37: the breaker counts a failure only for a guarded call that rejects
\* (the per-provider timeout).  A guarded call that resolves with a result,
\* whatever the result (valid, invalid, service unavailable), is a success:
\* it leaves the provider's counter at zero and its breaker closed.  So the
\* counter of a provider grows only in a task in which a call of it timed
\* out, and the breaker of a provider that always answers, with
\* service-unavailable or anything else, is never open.
C37_OnlyRejectionsCount ==
  [][\A p \in AddressProvider :
       /\ (\E e \in last'.events : e.provider = p /\ e.ev \in ResultKinds) =>
            /\ circuitBreakers'[p].failures = 0
            /\ circuitBreakers'[p].state = "closed"
       /\ circuitBreakers'[p].failures > circuitBreakers[p].failures =>
            \E e \in last'.events : e.provider = p /\ e.ev = "timeout"
       /\ "timeout" \notin env.outcomes =>
            circuitBreakers'[p].state = "closed" /\ circuitBreakers'[p].failures = 0]_vars

\* C37: a provider whose breaker had counted a failure has answered
\* service-unavailable, and its counter is back at zero
C37_Witness ==
  \E p \in AddressProvider :
    /\ \E e \in last.events : e.provider = p /\ e.ev = "unavailable"
    /\ circuitBreakers[p].failures = 0
    /\ circuitBreakers[p].sinceLastFailure < resetTimeoutMs

\* C38: the canonical key is injective on normalized addresses: an input
\* that differs from another in the normalized form of a field (a field
\* that is absent or empty in one and present in the other included) has
\* another key.
C38_KeyInjective ==
  CanonicalForm(canon.input) # CanonicalForm(canon.first)
    => canonicalizeAddress(canon.input) # canon.key

\* C39: the cache and the in-flight table are looked up by the address
\* alone.  A call of validateAddress for a key the cache holds unexpired is
\* answered with the copy of the cached result, and a call for a key in
\* flight waits for the run in flight, whatever mode and preferredProvider
\* the call gives and whatever those of the earlier call were: the task of
\* the call runs no provider (no breaker event, no guarded call started, no
\* run started).
C39_OptionsIgnored ==
  [][last'.via \in {"cache", "inflight", "executor"} =>
       LET key == last'.key
           i == CacheIndex(cache, key)
           owner == inFlightRequests[key]
       IN
       IF i # 0 /\ cache[i].age <= cache[i].ttl
       THEN /\ last'.via = "cache" /\ last'.events = {}
            /\ \E s \in Slots :
                 last'.delivered =
                   {[slot |-> s, result |-> [cache[i].result EXCEPT !.latencyMs = 0]]}
            /\ UNCHANGED <<circuitBreakers, runs, calls, inFlightRequests>>
       ELSE owner # 0 =>
            /\ last'.via = "inflight" /\ last'.events = {}
            /\ \E s \in Slots :
                 reqs[s].pc = "idle" /\ reqs'[s] = [pc |-> "waiting", run |-> owner]
            /\ UNCHANGED <<circuitBreakers, runs, calls, inFlightRequests>>]_vars

\* C39: a call that asks for hedged mode has been given the promise of a
\* run in waterfall mode that is in flight for its address
C39_Witness ==
  /\ last.via = "inflight"
  /\ last.asked.mode = "hedged"
  /\ runs[inFlightRequests[last.key]].mode = "waterfall"

\* C39: a call that names a preferred provider has been answered from the
\* cache with the result of another provider
C39_WitnessCached ==
  /\ last.via = "cache"
  /\ last.asked.preferredProvider # "none"
  /\ \E d \in last.delivered : d.result.provider # last.asked.preferredProvider

\* C40: a service-unavailable result is cached like any other negative
\* result.  The task in which an executor hands a result with
\* serviceUnavailable = true to its callers (the total-exhaustion result
\* included) stores it under the key with negativeCacheTtlMs; an unexpired
\* entry of that kind stays in the cache until the store of another key
\* evicts it; and a call of validateAddress for the key of such an entry is
\* answered with that result with latencyMs = 0, in a task that runs no
\* provider.
C40_UnavailableCached ==
  [][/\ \A d \in last'.delivered :
          (last'.via # "cache" /\ Truthy(d.result, "serviceUnavailable")) =>
            LET key == IF last'.via = "executor" THEN last'.key
                       ELSE runs[reqs[d.slot].run].key
                i == CacheIndex(cache', key)
            IN /\ i # 0
               /\ cache'[i].result = d.result
               /\ cache'[i].age = 0
               /\ cache'[i].ttl = negativeCacheTtlMs
     /\ \A i \in 1..Len(cache) :
          ( /\ Truthy(cache[i].result, "serviceUnavailable")
            /\ cache[i].age < cache[i].ttl ) =>
            \/ \E j \in 1..Len(cache') :
                 /\ cache'[j].key = cache[i].key
                 /\ cache'[j].result = cache[i].result
                 /\ cache'[j].age <= cache'[j].ttl
            \/ /\ Len(cache) >= maxSize
               /\ \E j \in 1..Len(cache') :
                    cache'[j].key # cache[i].key /\ cache'[j].age = 0
     /\ \A i \in 1..Len(cache) :
          ( /\ last'.via \in {"cache", "inflight", "executor"}
            /\ last'.key = cache[i].key
            /\ Truthy(cache[i].result, "serviceUnavailable")
            /\ cache[i].age <= cache[i].ttl ) =>
            /\ last'.via = "cache" /\ last'.events = {}
            /\ \E s \in Slots :
                 last'.delivered =
                   {[slot |-> s, result |-> [cache[i].result EXCEPT !.latencyMs = 0]]}
            /\ UNCHANGED <<circuitBreakers, runs, calls, inFlightRequests>>]_vars

\* C40: a call has been answered from the cache with the total-exhaustion
\* result of an earlier call, while the providers answer with valid results
\* too
C40_Witness ==
  /\ last.via = "cache"
  /\ "valid" \in env.outcomes
  /\ \E d \in last.delivered :
       /\ Truthy(d.result, "serviceUnavailable")
       /\ Has(d.result, "didFallback")
       /\ d.result.latencyMs = 0

====
